---------------------------- MODULE Spec2Model ----------------------------
(***************************************************************************)
(* A model of the agostle conversion engine (package converter).           *)
(*                                                                         *)
(* The module models three parts of the package, each with a               *)
(* specification of its own over the shared state:                         *)
(*                                                                         *)
(*   SpecProc / FairSpecProc   child processes, the office renderer's      *)
(*                             mutex and port lock, the rate limiter       *)
(*                             (lofficeConvert, LoadConfig, execute,       *)
(*                             pdfPageNum)                                 *)
(*   SpecPdf                   PdfClean, PdfPageNum, PdfSplit, PdfMerge    *)
(*                             over a file system and the clean memo      *)
(*   SpecFdf, SpecSplitFdf     getFdf / PdfFillFdf over the template cache *)
(*                             files, and splitFdf as a function of bytes  *)
(***************************************************************************)
EXTENDS Integers, Sequences, FiniteSets, TLC

(***************************************************************************)
(* Bounds of the model.                                                    *)
(***************************************************************************)
NumTasks == 3
\* the tasks that take part in the runs checked for liveness
NumLive == 2

(***************************************************************************)
(* Program constants.                                                      *)
(***************************************************************************)
\* the limit ConcLimit is built with: NewRateLimiter(Concurrency)
Concurrency == 2

Tasks == 1..NumTasks

\* the holder of the port that is another service instance on the host
OtherInstance == NumTasks + 1

VARIABLES
    \* ---- child processes and locks
    pc,              \* task -> where it is in its operation
    op,              \* task -> the operation it runs
    arg,             \* task -> the operation's boolean input (see Begin)
    err,             \* task -> "none" | "ok" | "err": what the operation returned
    childErr,        \* task -> whether its last child process failed or timed out
    lofficeMu,       \* 0 (unlocked) or the task holding the mutex
    lofficePortLock, \* TRUE: the package variable holds a port lock; FALSE: nil
    portHeld,        \* 0 (port free), the task that bound it, or OtherInstance
    concHeld,        \* the tasks holding a token of ConcLimit
    running,         \* the tasks with a running child process
    lcIdx,           \* task -> popplerOk keys LoadConfig has probed so far
    \* ---- PDF files, tools and the clean memo
    conf,            \* which tools the configuration found (fixed after start)
    files,           \* path -> content of the file there (NoFile: none)
    splitDir,        \* the entries of the directory the last PdfSplit made
    dirsMade,        \* whether the last call made a directory
    alreadyCleaned,  \* the clean memo: [paths, hashes, others], the map's keys
    pdfCleanStatus,  \* pcNotChecked, pcNothing, pcPdfClean, pcMutool or both
    last,            \* the last completed call: what it was given and returned
    prev,            \* the completed call before it
    \* ---- FDF templates
    ft,              \* task -> its call of PdfFillFdf: position, inputs, locals
    fdfFile,         \* form -> the <hash>.fdf file in Workdir
    gobFile,         \* form -> the <hash>.fdf.gob file in Workdir
    fillFdfMu,       \* 0, or the task holding fillFdfMu
    fdfIn,           \* the text given to splitFdf
    fdfOut,          \* what splitFdf made of it, or NoTemplate
    fdfText,         \* what WriteTo wrote of fdfOut, or NotWritten, or Panicked
    \* ---- content types and converters
    ctCall,          \* a call of FixContentType or GetConverter: inputs, results
    pdfCall          \* a call of OfficeToPdf or HTMLToPdf: inputs, disk, result

procVars == <<pc, op, arg, err, childErr, lofficeMu, lofficePortLock,
              portHeld, concHeld, running, lcIdx>>

pdfVars == <<conf, files, splitDir, dirsMade, alreadyCleaned, pdfCleanStatus,
             last, prev>>

fdfVars == <<ft, fdfFile, gobFile, fillFdfMu, fdfIn, fdfOut, fdfText>>

convVars == <<ctCall, pdfCall>>

vars == <<procVars, pdfVars, fdfVars, convVars>>

\* the state of the content types and converters where they are not used
IdleCt == [step |-> "idle", body |-> "", ct |-> <<>>, fn |-> <<>>,
           media |-> {}, fixed |-> <<>>, again |-> <<>>, conv |-> <<>>]
IdlePdfCall == [step |-> "idle", op |-> "none", destfn |-> <<>>, src |-> <<>>,
                wk |-> FALSE, leave |-> FALSE, disk |-> {}, err |-> FALSE]
ConvIdle == ctCall = IdleCt /\ pdfCall = IdlePdfCall

-----------------------------------------------------------------------------
(***************************************************************************)
(* Part 1: child processes, lofficeMu, lofficePortLock, ConcLimit.         *)
(***************************************************************************)

\* The operations a task can run.  "execute" stands for every call site that
\* runs its command through runWithTimeout / runWithContext: execute (call,
\* callAt: pdfseparate, pdftk burst, the cleaner, ghostscript, generate_fdf,
\* fill_form), wkhtmltopdf, and PdfMerge's pdfunite and pdftk cat.
ProcOps == {"lofficeConvert", "execute", "pdfPageNum", "LoadConfig"}

\* the keys of popplerOk, which LoadConfig probes with "-h"
NumPopplerKeys == 3

InitProc ==
    /\ pc = [p \in Tasks |-> "idle"]
    /\ op = [p \in Tasks |-> "none"]
    /\ arg = [p \in Tasks |-> FALSE]
    /\ err = [p \in Tasks |-> "none"]
    /\ childErr = [p \in Tasks |-> FALSE]
    /\ lofficeMu = 0
    /\ lofficePortLock = TRUE
    /\ portHeld = 0
    /\ concHeld = {}
    /\ running = {}
    /\ lcIdx = [p \in Tasks |-> 0]

\* A task is handed an operation.  arg is, for lofficeConvert, outDir == "";
\* for LoadConfig, the configured *ConfLofficeUsePortLock.
BeginOneOf(p, ops) ==
    /\ pc[p] = "idle"
    /\ \E o \in ops, a \in BOOLEAN :
          /\ (o \in {"execute", "pdfPageNum"} => a = FALSE)
          /\ op' = [op EXCEPT ![p] = o]
          /\ arg' = [arg EXCEPT ![p] = a]
          /\ pc' = [pc EXCEPT ![p] =
                CASE o = "lofficeConvert" -> "lo_enter"
                  [] o = "execute"        -> "rw_start"
                  [] o = "pdfPageNum"     -> "pn_start"
                  [] o = "LoadConfig"     -> "lc_probe"]
    /\ UNCHANGED <<convVars, pdfVars, fdfVars, err, childErr, lofficeMu, lofficePortLock, portHeld,
                   concHeld, running, lcIdx>>

Begin(p) == BeginOneOf(p, ProcOps)

\* lofficeConvert: outDir == "" returns an error before any lock is taken
lofficeConvertEnter(p) ==
    /\ pc[p] = "lo_enter"
    /\ IF arg[p]
         THEN /\ pc' = [pc EXCEPT ![p] = "done"]
              /\ err' = [err EXCEPT ![p] = "err"]
         ELSE /\ pc' = [pc EXCEPT ![p] = "lo_lock"]
              /\ err' = err
    /\ UNCHANGED <<convVars, pdfVars, fdfVars, op, arg, childErr, lofficeMu, lofficePortLock, portHeld,
                   concHeld, running, lcIdx>>

\* a mutex that does not exclude: Lock returns although another task holds it
lofficeMuLock_NoExclusion(p) ==
    /\ pc[p] = "lo_lock"
    /\ lofficeMu' = p
    /\ pc' = [pc EXCEPT ![p] = "lo_port"]
    /\ UNCHANGED <<convVars, pdfVars, fdfVars, op, arg, err, childErr, lofficePortLock, portHeld,
                   concHeld, running, lcIdx>>

\* lofficeMu.Lock()
lofficeMuLock(p) ==
    /\ pc[p] = "lo_lock"
    /\ lofficeMu = 0
    /\ lofficeMu' = p
    /\ pc' = [pc EXCEPT ![p] = "lo_port"]
    /\ UNCHANGED <<convVars, pdfVars, fdfVars, op, arg, err, childErr, lofficePortLock, portHeld,
                   concHeld, running, lcIdx>>

\* if lofficePortLock != nil { lofficePortLock.Lock(); defer ...Unlock() }
\* Lock binds the port, and blocks while it is bound by anyone.
lofficePortLockLock(p) ==
    /\ pc[p] = "lo_port"
    /\ IF lofficePortLock
         THEN /\ portHeld = 0
              /\ portHeld' = p
         ELSE portHeld' = portHeld
    /\ pc' = [pc EXCEPT ![p] = "rw_start"]
    /\ UNCHANGED <<convVars, pdfVars, fdfVars, op, arg, err, childErr, lofficeMu, lofficePortLock,
                   concHeld, running, lcIdx>>

\* runWithTimeout / runWithContext: take a token of ConcLimit, start the child
runWithContextStart(p) ==
    /\ pc[p] = "rw_start"
    /\ Cardinality(concHeld) < Concurrency
    /\ concHeld' = concHeld \cup {p}
    /\ running' = running \cup {p}
    /\ pc' = [pc EXCEPT ![p] = "rw_wait"]
    /\ UNCHANGED <<convVars, pdfVars, fdfVars, op, arg, err, childErr, lofficeMu, lofficePortLock,
                   portHeld, lcIdx>>

\* the child exits, fails, or is killed at the deadline; the token is given
\* back, and the caller goes on
runWithContextEnd(p) ==
    /\ pc[p] = "rw_wait"
    /\ \E failed \in BOOLEAN :
          /\ childErr' = [childErr EXCEPT ![p] = failed]
          /\ IF op[p] = "lofficeConvert"
               THEN /\ pc' = [pc EXCEPT ![p] = "lo_ret"]
                    /\ err' = err
               ELSE /\ pc' = [pc EXCEPT ![p] = "done"]
                    /\ err' = [err EXCEPT ![p] = IF failed THEN "err" ELSE "ok"]
    /\ concHeld' = concHeld \ {p}
    /\ running' = running \ {p}
    /\ UNCHANGED <<convVars, pdfVars, fdfVars, op, arg, lofficeMu, lofficePortLock, portHeld, lcIdx>>

\* a return that runs the deferred unlocks only when the child succeeded
lofficeConvertReturn_NoUnlockOnError(p) ==
    /\ pc[p] = "lo_ret"
    /\ \E statOk \in BOOLEAN :
          err' = [err EXCEPT ![p] =
                     IF childErr[p] \/ ~statOk THEN "err" ELSE "ok"]
    /\ IF childErr[p]
         THEN UNCHANGED <<portHeld, lofficeMu>>
         ELSE /\ portHeld' = IF portHeld = p THEN 0 ELSE portHeld
              /\ lofficeMu' = 0
    /\ pc' = [pc EXCEPT ![p] = "done"]
    /\ UNCHANGED <<convVars, pdfVars, fdfVars, op, arg, childErr, lofficePortLock, concHeld, running, lcIdx>>

\* lofficeConvert after the child: the error of the run, or of os.Stat(outfn);
\* then the deferred lofficePortLock.Unlock() (on the lock that was locked)
\* and lofficeMu.Unlock()
lofficeConvertReturn(p) ==
    /\ pc[p] = "lo_ret"
    /\ \E statOk \in BOOLEAN :
          err' = [err EXCEPT ![p] =
                     IF childErr[p] \/ ~statOk THEN "err" ELSE "ok"]
    /\ portHeld' = IF portHeld = p THEN 0 ELSE portHeld
    /\ lofficeMu' = 0
    /\ pc' = [pc EXCEPT ![p] = "done"]
    /\ UNCHANGED <<convVars, pdfVars, fdfVars, op, arg, childErr, lofficePortLock, concHeld, running, lcIdx>>

\* pdfPageNum: cmd.CombinedOutput() starts pdfinfo (or pdftk dump_data_utf8)
\* itself, not through runWithTimeout
pdfPageNumStart(p) ==
    /\ pc[p] = "pn_start"
    /\ running' = running \cup {p}
    /\ pc' = [pc EXCEPT ![p] = "pn_wait"]
    /\ UNCHANGED <<convVars, pdfVars, fdfVars, op, arg, err, childErr, lofficeMu, lofficePortLock,
                   portHeld, concHeld, lcIdx>>

pdfPageNumEnd(p) ==
    /\ pc[p] = "pn_wait"
    /\ running' = running \ {p}
    /\ \E failed \in BOOLEAN :
          /\ childErr' = [childErr EXCEPT ![p] = failed]
          /\ err' = [err EXCEPT ![p] = IF failed THEN "err" ELSE "ok"]
    /\ pc' = [pc EXCEPT ![p] = "done"]
    /\ UNCHANGED <<convVars, pdfVars, fdfVars, op, arg, lofficeMu, lofficePortLock, portHeld, concHeld,
                   lcIdx>>

\* LoadConfig: for k := range popplerOk { exec.Command(prefix+k, "-h").Run() }
LoadConfigProbeStart(p) ==
    /\ pc[p] = "lc_probe"
    /\ lcIdx[p] < NumPopplerKeys
    /\ running' = running \cup {p}
    /\ pc' = [pc EXCEPT ![p] = "lc_wait"]
    /\ UNCHANGED <<convVars, pdfVars, fdfVars, op, arg, err, childErr, lofficeMu, lofficePortLock,
                   portHeld, concHeld, lcIdx>>

LoadConfigProbeEnd(p) ==
    /\ pc[p] = "lc_wait"
    /\ running' = running \ {p}
    /\ lcIdx' = [lcIdx EXCEPT ![p] = @ + 1]
    /\ pc' = [pc EXCEPT ![p] = "lc_probe"]
    /\ UNCHANGED <<convVars, pdfVars, fdfVars, op, arg, err, childErr, lofficeMu, lofficePortLock,
                   portHeld, concHeld>>

\* LoadConfig: if !*ConfLofficeUsePortLock { lofficeMu.Lock() ...
LoadConfigLock(p) ==
    /\ pc[p] = "lc_probe"
    /\ lcIdx[p] = NumPopplerKeys
    /\ IF arg[p]
         THEN /\ pc' = [pc EXCEPT ![p] = "done"]
              /\ err' = [err EXCEPT ![p] = "ok"]
              /\ lofficeMu' = lofficeMu
         ELSE /\ lofficeMu = 0
              /\ lofficeMu' = p
              /\ pc' = [pc EXCEPT ![p] = "lc_nil"]
              /\ err' = err
    /\ UNCHANGED <<convVars, pdfVars, fdfVars, op, arg, childErr, lofficePortLock, portHeld, concHeld,
                   running, lcIdx>>

\* ... lofficePortLock = nil; lofficeMu.Unlock() }; return nil
LoadConfigUnlock(p) ==
    /\ pc[p] = "lc_nil"
    /\ lofficePortLock' = FALSE
    /\ lofficeMu' = 0
    /\ pc' = [pc EXCEPT ![p] = "done"]
    /\ err' = [err EXCEPT ![p] = "ok"]
    /\ UNCHANGED <<convVars, pdfVars, fdfVars, op, arg, childErr, portHeld, concHeld, running, lcIdx>>

\* another service instance on the host binds the port for its own renderer
OtherInstanceLock ==
    /\ portHeld = 0
    /\ portHeld' = OtherInstance
    /\ UNCHANGED <<convVars, pdfVars, fdfVars, pc, op, arg, err, childErr, lofficeMu, lofficePortLock,
                   concHeld, running, lcIdx>>

\* ... and releases it when its renderer has ended
OtherInstanceUnlock ==
    /\ portHeld = OtherInstance
    /\ portHeld' = 0
    /\ UNCHANGED <<convVars, pdfVars, fdfVars, pc, op, arg, err, childErr, lofficeMu, lofficePortLock,
                   concHeld, running, lcIdx>>

-----------------------------------------------------------------------------
(***************************************************************************)
(* Part 2: PDF files.  PdfClean, PdfPageNum, PdfSplit, PdfMerge.           *)
(*                                                                         *)
(* Each call is one step (the package runs them to completion; the claims  *)
(* checked here are about a call's result and effects).  What an external  *)
(* tool or a system call does is an input of the step: `fail` names the    *)
(* first of them that fails, "none" if none does.  A tool that is given a  *)
(* file it cannot read fails whatever `fail` says, and a tool that fails   *)
(* leaves no output file.                                                  *)
(***************************************************************************)

\* pdfCleanStatus values
pcNotChecked == 0
pcNothing == -1
pcPdfClean == 1
pcMutool == 2

\* if len(alreadyCleaned) > 1024 { alreadyCleaned = make(...) }
MemoCap == 1024

\* The source files callers name.  A path is a tuple of name pieces, so that
\* fn+"-cleaned.pdf" is Append(fn, "-cleaned.pdf").
SrcPaths == {<<"a.pdf">>, <<"b.pdf">>}
CleanedPath(fn) == Append(fn, "-cleaned.pdf")
\* nakeFilename(srcfn) + "-pp.ps"
PsPath(fn) == Append(fn, "-pp.ps")
DestPath == <<"out.pdf">>
AllPaths == SrcPaths \cup {CleanedPath(fn) : fn \in SrcPaths}
                     \cup {PsPath(fn) : fn \in SrcPaths}
                     \cup {DestPath}

\* The content of a file, as far as the tools tell contents apart:
\*   kind  "ok"       a PDF the page-count probe and every tool can read
\*         "damaged"  a PDF the probe cannot read and a cleaner can repair
\*         "broken"   not a PDF at all: every tool fails on it
\*         "ps"       the postscript PdfToPs writes
\*         "merged"   the output of pdfunite / pdftk cat over parts
\*   pages its number of pages
\*   gen   0 as found, 1 once rewritten by a cleaner or by ghostscript
\*   parts for "merged": the contents merged, in the order given
\* Two files are byte-identical iff their contents are equal.
NoFile == [kind |-> "nofile", pages |-> 0, gen |-> 0, parts |-> <<>>]
Pdf(k, n) == [kind |-> k, pages |-> n, gen |-> 0, parts |-> <<>>]
Exists(fs, fn) == fs[fn] # NoFile

\* page counts of the documents tried
MaxPages == 10
PageCounts == {0, 1, 2, MaxPages}
SrcContents == {Pdf("ok", n) : n \in PageCounts}
                 \cup {Pdf("damaged", n) : n \in PageCounts}
                 \cup {Pdf("broken", 0)}

\* the contents PdfClean is tried on
CleanContents == {Pdf("ok", 2), Pdf("damaged", 2), Pdf("broken", 0)}

\* getHash: the SHA-1 of the content ("" when the file cannot be opened);
\* equal exactly for equal contents
getHash(fs, fn) == IF Exists(fs, fn) THEN <<fs[fn]>> ELSE <<>>

\* what a cleaner (pdfclean, mutool clean) or the ghostscript round trip
\* makes of a readable file
Rewritten(c) == [c EXCEPT !.kind = "ok", !.gen = 1]
Readable(c) == c.kind \in {"ok", "damaged", "merged"}

\* The configurations: which of the tools were found.
Configs == [pdfinfo : BOOLEAN, pdftk : BOOLEAN, pdfseparate : BOOLEAN,
            pdfunite : BOOLEAN, pdfclean : BOOLEAN, mutool : BOOLEAN]

\* The memo alreadyCleaned: the paths and the hashes it holds of the files
\* followed here, and the number of its entries for other files.
EmptyMemo == [paths |-> {}, hashes |-> {}, others |-> 0]

\* a call record of no call
NoCall == [op |-> "none", fn |-> <<>>, fns |-> <<>>,
           err |-> FALSE, n |-> 0, ret |-> <<>>, log |-> <<>>,
           before |-> [p \in AllPaths |-> NoFile],
           memoBefore |-> EmptyMemo]

\* what is kept of the call before the last one
Brief(cl) == [op |-> cl.op, fn |-> cl.fn, err |-> cl.err, log |-> cl.log]

\* the state of Part 2 in the specifications that do not use it
PdfIdle ==
    /\ conf = [pdfinfo |-> TRUE, pdftk |-> TRUE, pdfseparate |-> TRUE,
               pdfunite |-> TRUE, pdfclean |-> TRUE, mutool |-> TRUE]
    /\ files = [p \in AllPaths |-> NoFile]
    /\ splitDir = {}
    /\ dirsMade = FALSE
    /\ alreadyCleaned = EmptyMemo
    /\ pdfCleanStatus = pcNotChecked
    /\ last = NoCall
    /\ prev = Brief(NoCall)

\* pdfPageNum: the probe's result for a file.  Without pdfinfo and without
\* pdftk the command cannot start: no output, n = -1 and the error.  A file
\* the probe cannot read gives output without a page line: Atoi("") fails,
\* n = 0 and the error.
pdfPageNum(c, fs, fn) ==
    IF ~(c.pdfinfo \/ c.pdftk) THEN [n |-> -1, err |-> TRUE]
    ELSE IF fs[fn].kind \in {"ok", "merged"}
           THEN [n |-> fs[fn].pages, err |-> FALSE]
           ELSE [n |-> 0, err |-> TRUE]

\* the log entry of one external command: the tool and its file arguments
Ran(tool, args) == [tool |-> tool, args |-> args]

\* len(alreadyCleaned)
MemoLen(m) == Cardinality(m.paths) + Cardinality(m.hashes) + m.others

\* isAlreadyCleaned
isAlreadyCleaned(m, fs, fn) ==
    \/ fn \in m.paths
    \/ /\ getHash(fs, fn) # <<>>
       /\ getHash(fs, fn) \in m.hashes

\* PdfClean's first check of the cleaners, under cleanMtx
CheckedStatus(c, st) ==
    IF st # pcNotChecked THEN st
    ELSE LET s1 == IF c.pdfclean THEN pcPdfClean ELSE pcNothing
         IN  IF c.mutool
               THEN (IF s1 = pcNothing THEN pcMutool ELSE 3)
               ELSE s1

\* pdfCleanStatus&pcPdfClean != 0 ? *ConfPdfClean : *ConfMutool
Cleaner(st) == IF st \in {pcPdfClean, 3} THEN "pdfclean" ELSE "mutool"

\* the memo update at the end of PdfClean
MemoAdd(m, fs, fn) ==
    LET m0 == IF MemoLen(m) > MemoCap THEN EmptyMemo ELSE m
    IN  [paths |-> m0.paths \cup {fn},
         hashes |-> IF getHash(fs, fn) # <<>>
                      THEN m0.hashes \cup {getHash(fs, fn)}
                      ELSE m0.hashes,
         others |-> m0.others]

\* a check of the memo that never finds anything
MemoHit_Never(m, fs, fn) == FALSE

\* PdfClean's short cut: the file is already cleaned
MemoHit(m, fs, fn) == isAlreadyCleaned(m, fs, fn)

\* The result of a call's part: the world it leaves and what it returns.
\* w is [files, memo, status, log]; err its error.
World(fs, m, st, lg) == [files |-> fs, memo |-> m, status |-> st, log |-> lg]

\* PdfRewrite(fn+"-cleaned.pdf", fn): PdfToPs, PsToPdf, moveFile, and the
\* deferred unlink of the postscript file.  Gives [files, log, err].
PdfRewrite(fs, lg, fn, fail) ==
    LET lg1 == Append(lg, Ran("gs", <<fn>>))
        lg2 == Append(lg1, Ran("gs", <<PsPath(fn)>>))
    IN  IF fail = "tops" \/ ~Readable(fs[fn])
          THEN [files |-> fs, log |-> lg1, err |-> TRUE]
        ELSE IF fail = "topdf"
          THEN [files |-> fs, log |-> lg2, err |-> TRUE]
        ELSE IF fail = "move"
          THEN [files |-> [fs EXCEPT ![CleanedPath(fn)] = Rewritten(fs[fn])],
                log |-> lg2, err |-> TRUE]
        ELSE [files |-> [fs EXCEPT ![CleanedPath(fn)] = Rewritten(fs[fn])],
              log |-> lg2, err |-> FALSE]

\* a PdfClean that records the file in the memo however the call ended
MemoAfter_Always(m, fs, fn, failed) == MemoAdd(m, fs, fn)

\* the memo a call leaves: every error returns before the memo is written
MemoAfter(m, fs, fn, failed) == IF failed THEN m ELSE MemoAdd(m, fs, fn)

\* PdfClean(fn).  Gives [w, err].
PdfCleanRun(c, w, fn, fail) ==
    IF MemoHit(w.memo, w.files, fn) THEN [w |-> w, err |-> FALSE]
    ELSE
    LET st == CheckedStatus(c, w.status)
        \* the cleaner, or the rewrite when there is none
        step1 ==
          IF st # pcNothing
            THEN LET lg1 == Append(w.log, Ran(Cleaner(st), <<fn>>))
                 IN  IF fail = "clean" \/ ~Readable(w.files[fn])
                       THEN [files |-> w.files, log |-> lg1, err |-> TRUE]
                       ELSE [files |-> [w.files EXCEPT
                                 ![CleanedPath(fn)] = Rewritten(w.files[fn])],
                             \* pdfPageNum(fn + "-cleaned.pdf"), for the
                             \* encrypted flag
                             log |-> Append(lg1,
                                        Ran("probe", <<CleanedPath(fn)>>)),
                             err |-> FALSE]
            ELSE PdfRewrite(w.files, w.log, fn, fail)
    IN  IF step1.err
          THEN [w |-> World(step1.files,
                            MemoAfter(w.memo, step1.files, fn, TRUE),
                            st, step1.log),
                err |-> TRUE]
        ELSE IF fail = "rename" \/ ~Exists(step1.files, CleanedPath(fn))
          THEN [w |-> World(step1.files,
                            MemoAfter(w.memo, step1.files, fn, TRUE),
                            st, step1.log),
                err |-> TRUE]
        ELSE LET fs2 == [step1.files EXCEPT
                            ![fn] = step1.files[CleanedPath(fn)],
                            ![CleanedPath(fn)] = NoFile]
             IN  [w |-> World(fs2, MemoAfter(w.memo, fs2, fn, FALSE), st,
                              step1.log),
                  err |-> FALSE]

\* what can fail in a PdfClean call
CleanFails == {"none", "clean", "tops", "topdf", "move", "rename"}

\* the state before a call, as a world with an empty log
Now == World(files, alreadyCleaned, pdfCleanStatus, <<>>)

\* the record of a completed call
Call(o, fn, fns, w, e, n, ret) ==
    [op |-> o, fn |-> fn, fns |-> fns, err |-> e, n |-> n,
     ret |-> ret, log |-> w.log, before |-> files,
     memoBefore |-> alreadyCleaned]

\* a call of PdfClean(fn)
PdfClean(fn, fail) ==
    \E r \in {PdfCleanRun(conf, Now, fn, fail)} :
        /\ files' = r.w.files
        /\ alreadyCleaned' = r.w.memo
        /\ pdfCleanStatus' = r.w.status
        /\ last' = Call("PdfClean", fn, <<>>, r.w, r.err, 0, <<>>)
        /\ prev' = Brief(last)
        /\ UNCHANGED <<convVars, procVars, fdfVars, conf, splitDir, dirsMade>>

\* the commands of a log run with a tool among ts
RunsOf(lg, ts) == {i \in 1..Len(lg) : lg[i].tool \in ts}
Cleaners == {"pdfclean", "mutool"}

\* The files PdfClean is tried on, with every pair of cleaners found or not.
\* The entries the memo holds at the start for files cleaned earlier: none,
\* or as many as 512 files of different contents leave (a path and a hash
\* each), or one less (two of the files having one content).
OtherEntries == {0, MemoCap - 1, MemoCap}

InitClean ==
    /\ conf \in {c \in Configs : c.pdfinfo /\ c.pdftk /\ c.pdfseparate
                                     /\ c.pdfunite}
    /\ files \in {f \in [AllPaths -> CleanContents \cup {NoFile}] :
                    /\ \A p \in AllPaths \ SrcPaths : f[p] = NoFile
                    /\ f[<<"a.pdf">>] # NoFile}
    /\ splitDir = {}
    /\ dirsMade = FALSE
    /\ alreadyCleaned \in {[EmptyMemo EXCEPT !.others = k] : k \in OtherEntries}
    /\ pdfCleanStatus = pcNotChecked
    /\ last = NoCall
    /\ prev = Brief(NoCall)

NextClean ==
    \E fn \in SrcPaths, fail \in CleanFails : PdfClean(fn, fail)

ProcIdle == InitProc

-----------------------------------------------------------------------------
(* PdfPageNum and PdfSplit. *)

\* the elements of a sequence
Range(s) == {s[i] : i \in 1..Len(s)}

\* The value of a one-element set.  An expression whose value is used many
\* times is bound as the element of such a set, to be computed once.
The(S) == CHOOSE x \in S : TRUE

\* a PdfPageNum that takes every first probe for failed
ProbeFailed_Always(r) == TRUE

\* if numberofpages, _, err = pdfPageNum(srcfn); err == nil { return }
ProbeFailed(r) == r.err

\* PdfPageNum(fn): the probe; if it fails, one PdfClean (its error only
\* logged) and the probe once more.  Gives [w, n, err].  The log has an
\* entry for the call of PdfClean, before what PdfClean itself runs.
PdfPageNumRun(c, w, fn, fail) ==
    LET r1 == pdfPageNum(c, w.files, fn)
        w1 == [w EXCEPT !.log = Append(@, Ran("probe", <<fn>>))]
        w2 == [w1 EXCEPT !.log = Append(@, Ran("PdfClean", <<fn>>))]
    IN  IF ~ProbeFailed(r1) THEN [w |-> w1, n |-> r1.n, err |-> r1.err]
        ELSE The({[w |-> [cl.w EXCEPT !.log = Append(@, Ran("probe", <<fn>>))],
                   n |-> pdfPageNum(c, cl.w.files, fn).n,
                   err |-> pdfPageNum(c, cl.w.files, fn).err] :
                    cl \in {PdfCleanRun(c, w2, fn, fail)}})

\* a call of PdfPageNum(fn)
PdfPageNum(fn, fail) ==
    \E r \in {PdfPageNumRun(conf, Now, fn, fail)} :
        /\ files' = r.w.files
        /\ alreadyCleaned' = r.w.memo
        /\ pdfCleanStatus' = r.w.status
        /\ last' = Call("PdfPageNum", fn, <<>>, r.w, r.err, r.n, <<>>)
        /\ prev' = Brief(last)
        /\ UNCHANGED <<convVars, procVars, fdfVars, conf, splitDir, dirsMade>>

\* File names are sequences of bytes.
Chars(fn) ==
    IF fn = <<"a.pdf">> THEN <<97, 46, 112, 100, 102>>
                        ELSE <<98, 46, 112, 100, 102>>
DotPdf == <<46, 112, 100, 102>>
\* pdftk burst also writes doc_data.txt into the directory
DocDataTxt == <<100, 111, 99, 95, 100, 97, 116, 97, 46, 116, 120, 116>>

\* strings.HasPrefix, strings.HasSuffix
HasPrefix(s, pre) == Len(s) >= Len(pre) /\ SubSeq(s, 1, Len(pre)) = pre
HasSuffix(s, suf) ==
    Len(s) >= Len(suf) /\ SubSeq(s, Len(s) - Len(suf) + 1, Len(s)) = suf

\* the decimal digits of k: what %d prints
RECURSIVE Decimal(_)
Decimal(k) == IF k < 10 THEN <<48 + k>>
                         ELSE Decimal(k \div 10) \o <<48 + (k % 10)>>

\* what %03d prints: at least three digits, padded with zeros
Decimal03(k) ==
    LET d == Decimal(k)
    IN  IF Len(d) >= 3 THEN d
        ELSE IF Len(d) = 2 THEN <<48>> \o d ELSE <<48, 48>> \o d

\* prefix := strings.Replace(filepath.Base(srcfn), "%", "!P!", -1) + "-"
\* (the base names tried hold no "%")
SplitPrefix(fn) == Chars(fn) \o <<45>>

\* the name pdftk burst gives page k: prefix + "%03d.pdf"
BurstName(fn, k) == SplitPrefix(fn) \o Decimal03(k) \o DotPdf

\* the name pdfseparate gives page k: prefix + "%d.pdf"
SeparateName(fn, k) == SplitPrefix(fn) \o Decimal(k) \o DotPdf

\* the bytewise order of Go's strings: s < t
RECURSIVE StrLess(_, _)
StrLess(s, t) ==
    IF t = <<>> THEN FALSE
    ELSE IF s = <<>> THEN TRUE
    ELSE IF Head(s) # Head(t) THEN Head(s) < Head(t)
    ELSE StrLess(Tail(s), Tail(t))

\* sort.Strings: the names in increasing order.  The place of a name is one
\* more than the number of names before it in the order (equal names keep
\* their order).
SortStrings(names) ==
    LET Before(j, i) == \/ StrLess(names[j], names[i])
                        \/ (names[j] = names[i] /\ j < i)
        Place(i) == 1 + Cardinality({j \in 1..Len(names) : Before(j, i)})
    IN  The({[r \in 1..Len(names) |->
                names[CHOOSE i \in 1..Len(names) : place[i] = r]] :
              place \in {[i \in 1..Len(names) |-> Place(i)]}})

\* the names PdfSplit keeps: strings.HasPrefix(fn, prefix) &&
\* strings.HasSuffix(fn, ".pdf")
KeepName(name, prefix) == HasPrefix(name, prefix) /\ HasSuffix(name, DotPdf)

\* the loop over filenames from the last to the first, which removes the
\* names not kept and leaves the others in their order
FilterNames(names, prefix) ==
    SelectSeq(names, LAMBDA name : KeepName(name, prefix))

\* the files a page-separation tool writes for a document of n pages, in the
\* order it writes them: [name, page], page 0 for a file that is no page
\* (pdftk burst leaves doc_data.txt)
SplitOutput(c, fn, n) ==
    IF c.pdfseparate
      THEN [k \in 1..n |-> [name |-> SeparateName(fn, k), page |-> k]]
      ELSE [k \in 1..n |-> [name |-> BurstName(fn, k), page |-> k]]
             \o <<[name |-> DocDataTxt, page |-> 0]>>

Reverse(s) == [i \in 1..Len(s) |-> s[Len(s) + 1 - i]]

\* dh.Readdirnames(-1): the names of a directory, in an order of the file
\* system's choosing; two orders are tried, that of the writing and its
\* reverse
Readdirnames(entries, order) ==
    LET names == [i \in 1..Len(entries) |-> entries[i].name]
    IN  IF order = "up" THEN names ELSE Reverse(names)

\* a returned file name: the source file itself, or a name in the directory
\* the call made
InSrc(fn) == [dir |-> "src", name |-> Chars(fn)]
InDestdir(name) == [dir |-> "destdir", name |-> name]

\* PdfSplit tests err, its own (still nil) result, where PdfPageNum's error
\* is e: the branch is never taken
SplitSeesProbeError(e) == FALSE

\* a split that treats a single page like any other count
SplitIsOnePage_Never(n) == FALSE

\* } else if n == 1 { filenames = append(filenames, srcfn); return }
SplitIsOnePage(n) == n = 1

\* what can fail in PdfSplit itself
SplitFails == {"none", "mkdir", "separate", "open", "readdir"}

\* PdfSplit after its call of PdfPageNum, which gave pn.
\* Gives [w, n, err, ret, dir, made]: dir is the content of the directory
\* made (made: whether one was).
PdfSplitRest(c, pn, fn, sfail, order) ==
    LET none == [w |-> pn.w, n |-> pn.n, err |-> TRUE, ret |-> <<>>,
                 dir |-> {}, made |-> FALSE]
        tool == IF c.pdfseparate THEN "pdfseparate" ELSE "pdftk burst"
        w2 == [pn.w EXCEPT !.log = Append(@, Ran(tool, <<fn>>))]
        toolOk == /\ sfail # "separate"
                  /\ (c.pdfseparate \/ c.pdftk)
                  /\ pn.w.files[fn].kind \in {"ok", "merged"}
    IN  IF SplitSeesProbeError(pn.err) THEN none
        ELSE IF pn.n = 0 THEN none
        ELSE IF SplitIsOnePage(pn.n)
          THEN [none EXCEPT !.err = FALSE, !.ret = <<InSrc(fn)>>]
        ELSE IF sfail = "mkdir" THEN none
        ELSE IF ~toolOk THEN [none EXCEPT !.w = w2, !.made = TRUE]
        ELSE The({
          IF sfail \in {"open", "readdir"}
            THEN [none EXCEPT !.w = w2, !.made = TRUE, !.dir = Range(out)]
            ELSE The({[w |-> w2, n |-> pn.n, err |-> FALSE,
                       ret |-> [i \in 1..Len(sorted) |-> InDestdir(sorted[i])],
                       dir |-> Range(out), made |-> TRUE] :
                   sorted \in {SortStrings(kept) :
                     kept \in {FilterNames(listing, SplitPrefix(fn)) :
                       listing \in {Readdirnames(out, order)}}}}) :
          out \in {SplitOutput(c, fn, pn.w.files[fn].pages)}})

\* PdfSplit(fn)
PdfSplitRun(c, w, fn, fail, sfail, order) ==
    The({PdfSplitRest(c, pn, fn, sfail, order) :
           pn \in {PdfPageNumRun(c, w, fn, fail)}})

\* a call of PdfSplit(fn)
PdfSplit(fn, fail, sfail, order) ==
    \E r \in {PdfSplitRun(conf, Now, fn, fail, sfail, order)} :
        /\ files' = r.w.files
        /\ alreadyCleaned' = r.w.memo
        /\ pdfCleanStatus' = r.w.status
        /\ splitDir' = r.dir
        /\ dirsMade' = r.made
        /\ last' = Call("PdfSplit", fn, <<>>, r.w, r.err, r.n, r.ret)
        /\ prev' = Brief(last)
        /\ UNCHANGED <<convVars, procVars, fdfVars, conf>>

\* The documents PdfSplit and PdfPageNum are tried on, one at a.pdf and none
\* at b.pdf, with every set of tools found or not.
InitSplit ==
    /\ conf \in {c \in Configs : c.pdfunite}
    /\ files \in {[p \in AllPaths |-> IF p = <<"a.pdf">> THEN d ELSE NoFile] :
                    d \in SrcContents}
    /\ splitDir = {}
    /\ dirsMade = FALSE
    /\ alreadyCleaned = EmptyMemo
    /\ pdfCleanStatus = pcNotChecked
    /\ last = NoCall
    /\ prev = Brief(NoCall)

\* Behaviours are followed for two calls: the second call meets the files
\* and the memo as the first one left them.
SecondCallAtMost == prev.op = "none"

\* what is tried in one PdfSplit: a failure in the cleaning or one in the
\* split itself, or none and either order of the directory
SplitChoices ==
    {<<fail, "none", "up">> : fail \in CleanFails}
      \cup {<<"none", sfail, "up">> : sfail \in SplitFails}
      \cup {<<"none", "none", "down">>}

NextSplit ==
    \/ \E fn \in SrcPaths, ch \in SplitChoices :
            SecondCallAtMost /\ PdfSplit(fn, ch[1], ch[2], ch[3])
    \/ \E fn \in SrcPaths, fail \in CleanFails :
            SecondCallAtMost /\ PdfPageNum(fn, fail)


-----------------------------------------------------------------------------
(* PdfMerge. *)

\* the most file names given to one PdfMerge
MaxFiles == 2
FileLists == UNION {[1..k -> SrcPaths] : k \in 0..MaxFiles}

\* what is left of a file whose writing failed half-way
Partial == Pdf("broken", 0)

\* temp.LinkOrCopy(src, dst): a hard link, or if that cannot be made (dst
\* exists, or lfail = "link") a copy; either way dst then holds what src
\* holds.  Gives [files, err].
LinkOrCopy(fs, src, dst, lfail) ==
    IF ~Exists(fs, src) THEN [files |-> fs, err |-> TRUE]
    ELSE IF lfail # "link" /\ ~Exists(fs, dst)
      THEN [files |-> [fs EXCEPT ![dst] = fs[src]], err |-> FALSE]
    ELSE IF lfail = "copy"
      THEN [files |-> [fs EXCEPT ![dst] = Partial], err |-> TRUE]
    ELSE [files |-> [fs EXCEPT ![dst] = fs[src]], err |-> FALSE]

\* the document pdfunite or pdftk cat writes from the documents given
RECURSIVE SumPages(_)
SumPages(cs) == IF cs = <<>> THEN 0 ELSE Head(cs).pages + SumPages(Tail(cs))
Merged(cs) ==
    [kind |-> "merged", pages |-> SumPages(cs), gen |-> 0,
     parts |-> [i \in 1..Len(cs) |-> [kind |-> cs[i].kind, pages |-> cs[i].pages]]]

\* a merge that hands even a single file to the tools
MergeIsCopy_Never(k) == FALSE

\* } else if len(filenames) == 1 {
MergeIsCopy(k) == k = 1

\* what can fail in PdfMerge
MergeFails == {"none", "link", "copy", "pdfunite", "both"}

\* whether pdfunite, once started on these files, ends without error
UniteOk(fs, fns, mfail) ==
    /\ \A i \in 1..Len(fns) : fs[fns[i]].kind \in {"ok", "merged"}
    /\ mfail \notin {"pdfunite", "both"}

\* whether pdftk cat on these files ends without error (it cannot start
\* when pdftk is not there)
CatOk(c, fs, fns, mfail) ==
    /\ c.pdftk
    /\ \A i \in 1..Len(fns) : fs[fns[i]].kind \in {"ok", "merged"}
    /\ mfail # "both"

\* a merge that goes on to pdftk cat whatever pdfunite did
NeedsFallback_Always(unitePath, uniteOk) == TRUE

\* pdfunite := popplerOk["pdfunite"]; if pdfunite != "" { ...
\* if err == nil { return nil } ... }: pdftk cat is reached unless pdfunite
\* was there and ended without error
NeedsFallback(unitePath, uniteOk) == ~(unitePath /\ uniteOk)

\* PdfMerge(destfn, fns...).  Gives [files, log, err, by]: by names what the
\* error returned comes from.
PdfMergeRun(c, fs, dst, fns, mfail) ==
    LET cs == [i \in 1..Len(fns) |-> fs[fns[i]]]
        merged == [fs EXCEPT ![dst] = Merged(cs)]
        unite == Ran("pdfunite", fns)
        cat == Ran("pdftk cat", fns)
        lg1 == IF c.pdfunite THEN <<unite>> ELSE <<>>
    IN  IF Len(fns) = 0
          THEN [files |-> fs, log |-> <<>>, err |-> TRUE,
                by |-> "filenames required"]
        ELSE IF MergeIsCopy(Len(fns))
          THEN LET r == LinkOrCopy(fs, fns[1], dst, mfail)
               IN  [files |-> r.files, log |-> <<>>, err |-> r.err,
                    by |-> IF r.err THEN "LinkOrCopy" ELSE ""]
        ELSE IF ~NeedsFallback(c.pdfunite, UniteOk(fs, fns, mfail))
          THEN [files |-> merged, log |-> lg1, err |-> FALSE, by |-> ""]
        ELSE IF CatOk(c, fs, fns, mfail)
          THEN [files |-> merged, log |-> Append(lg1, cat), err |-> FALSE,
                by |-> ""]
        ELSE [files |-> fs, log |-> Append(lg1, cat), err |-> TRUE,
              by |-> "pdftk cat"]

\* a call of PdfMerge(DestPath, fns...)
PdfMerge(fns, mfail) ==
    \E r \in {PdfMergeRun(conf, files, DestPath, fns, mfail)} :
        /\ files' = r.files
        /\ last' = Call("PdfMerge", <<>>, fns,
                        World(r.files, alreadyCleaned, pdfCleanStatus, r.log),
                        r.err, 0, <<>>)
                     @@ [by |-> r.by, mfail |-> mfail]
        /\ prev' = Brief(last)
        /\ UNCHANGED <<convVars, procVars, fdfVars, conf, splitDir, dirsMade, alreadyCleaned,
                       pdfCleanStatus>>

\* the documents PdfMerge is tried on
MergeContents == {Pdf("ok", 1), Pdf("ok", 2), Pdf("broken", 0)}

InitMerge ==
    /\ conf \in {c \in Configs : c.pdfinfo /\ c.pdfseparate /\ c.pdfclean
                                     /\ c.mutool}
    /\ files \in {[p \in AllPaths |->
                      IF p = <<"a.pdf">> THEN a
                      ELSE IF p = <<"b.pdf">> THEN b
                      ELSE IF p = DestPath THEN d ELSE NoFile] :
                    a \in MergeContents, b \in MergeContents \cup {NoFile},
                    d \in {NoFile, Pdf("ok", 1)}}
    /\ splitDir = {}
    /\ dirsMade = FALSE
    /\ alreadyCleaned = EmptyMemo
    /\ pdfCleanStatus = pcNotChecked
    /\ last = NoCall
    /\ prev = Brief(NoCall)

NextMerge ==
    \E fns \in FileLists, mfail \in MergeFails :
        SecondCallAtMost /\ PdfMerge(fns, mfail)


-----------------------------------------------------------------------------
(***************************************************************************)
(* Part 3: the FDF template (splitFdf, fieldParts) and PdfFillFdf.         *)
(* Texts are sequences of bytes.                                           *)
(***************************************************************************)

\* var fieldPartV = []byte("\n<<\n/V ()\n")
fieldPartV == <<10, 60, 60, 10, 47, 86, 32, 40, 41, 10>>
\* []byte("/T (")
KeyOpen == <<47, 84, 32, 40>>
\* []byte(")\n>>")
KeyClose == <<41, 10, 62, 62>>

\* Go's s[i:j]
Slice(s, i, j) == [k \in 1..(j - i) |-> s[i + k]]

\* bytes.Index(s, sep): where sep first occurs in s (from 0), or -1
Index(s, sep) ==
    LET at == {i \in 0..(Len(s) - Len(sep)) : Slice(s, i, i + Len(sep)) = sep}
    IN  IF at = {} THEN -1 ELSE CHOOSE i \in at : \A j \in at : i <= j

\* the first loop of splitFdf: the text cut at every fieldPartV
RECURSIVE SplitParts(_)
SplitParts(fdf) ==
    LET i == Index(fdf, fieldPartV)
    IN  IF i < 0 THEN <<fdf>>
        ELSE <<Slice(fdf, 0, i)>>
               \o SplitParts(Slice(fdf, i + Len(fieldPartV), Len(fdf)))

\* the second loop of splitFdf on one part: the key between "/T (" and the
\* next ")\n>>", as a list of one key, or of none if the part has no key
PartKey(part) ==
    LET i == Index(part, KeyOpen)
        j == Index(Slice(part, i, Len(part)), KeyClose)
    IN  IF i < 0 THEN <<>>
        ELSE IF j < 0 THEN <<>>
        ELSE <<Slice(part, i + 4, j + i)>>

RECURSIVE PartKeys(_)
PartKeys(parts) ==
    IF parts = <<>> THEN <<>>
    ELSE PartKey(Head(parts)) \o PartKeys(Tail(parts))

\* splitFdf(fdf)
splitFdf(fdf) ==
    LET parts == SplitParts(fdf)
        keys == PartKeys(parts)
    IN  [Parts |-> parts, Fields |-> keys,
         Values |-> [k \in Range(keys) |-> <<>>]]

\* a Set that takes any key
Set_AnyKey(fp, key, value) == [fp |-> fp, err |-> FALSE]

\* fieldParts.Set(key, value).  Gives [fp, err].
Set(fp, key, value) ==
    IF key \notin DOMAIN fp.Values
      THEN [fp |-> fp, err |-> TRUE]
      ELSE [fp |-> [fp EXCEPT !.Values[key] = value], err |-> FALSE]

\* for k, v := range values { if err = fp.Set(k, v); err != nil { return err } }
\* The order of the keys does not show in the result.
RECURSIVE SetAll(_, _, _)
SetAll(fp, values, keys) ==
    IF keys = {} THEN [fp |-> fp, err |-> FALSE]
    ELSE LET k == CHOOSE x \in keys : TRUE
             r == Set(fp, k, values[k])
         IN  IF r.err THEN r ELSE SetAll(r.fp, values, keys \ {k})

\* []rune(val): the code points of the UTF-8 text val (here of sequences of
\* one and of two bytes)
RECURSIVE Runes(_)
Runes(val) ==
    IF val = <<>> THEN <<>>
    ELSE IF val[1] < 128 THEN <<val[1]>> \o Runes(Tail(val))
    ELSE <<(val[1] - 192) * 64 + (val[2] - 128)>> \o Runes(Tail(Tail(val)))

\* the units written low byte first
RECURSIVE UnitsLE(_)
UnitsLE(us) ==
    IF us = <<>> THEN <<>>
    ELSE <<Head(us) % 256, Head(us) \div 256>> \o UnitsLE(Tail(us))
Utf16BE_LowFirst(val) == UnitsLE(Runes(val))

\* cew.Write([]byte{byte(u >> 8), byte(u & 0xff)}) for each unit
RECURSIVE UnitsBE(_)
UnitsBE(us) ==
    IF us = <<>> THEN <<>>
    ELSE <<(Head(us) \div 256) % 256, Head(us) % 256>> \o UnitsBE(Tail(us))

\* utf16.Encode([]rune(val)), each unit written high byte first (the code
\* points tried are below 0x10000: one unit each)
Utf16BE(val) == UnitsBE(Runes(val))

\* fieldParts.WriteTo panics when it indexes fp.Fields past its end
WriteToPanics(fp) == Len(fp.Fields) < Len(fp.Parts) - 1

\* what fieldParts.WriteTo writes for the parts from the i-th on
RECURSIVE WriteFrom(_, _)
WriteFrom(fp, i) ==
    IF i = Len(fp.Parts) THEN fp.Parts[i]
    ELSE LET val == fp.Values[fp.Fields[i]]
             fpv1 == Slice(fieldPartV, 0, Len(fieldPartV) - 2)
             fpv2 == Slice(fieldPartV, Len(fieldPartV) - 2, Len(fieldPartV))
         IN  fp.Parts[i]
               \o (IF Len(val) = 0 THEN fieldPartV
                   ELSE fpv1 \o <<254, 255>> \o Utf16BE(val) \o fpv2)
               \o WriteFrom(fp, i + 1)

WriteTo(fp) == WriteFrom(fp, 1)

\* ---- the texts splitFdf is tried on: up to MaxChunks pieces in a row
MaxChunks == 4
KeyA == <<97>>
KeyB == <<98>>
KeyC == <<99>>
KeyZ == <<122>>
FieldText(key) == KeyOpen \o key \o KeyClose
FdfHeader == <<37, 70, 68, 70, 10>>
FdfTrailer == <<93, 10>>
Chunks == {fieldPartV, FieldText(KeyA), FieldText(KeyB), FdfHeader, KeyOpen}

RECURSIVE Flatten(_)
Flatten(ss) == IF ss = <<>> THEN <<>> ELSE Head(ss) \o Flatten(Tail(ss))

Texts == {Flatten(cs) : cs \in UNION {[1..n -> Chunks] : n \in 0..MaxChunks}}

NoTemplate == [Parts |-> <<>>, Fields |-> <<>>, Values |-> <<>>]

\* fdfText before WriteTo is called, and when WriteTo has panicked
NotWritten == <<-1>>
Panicked == <<-2>>

\* ---- forms, and what pdftk generate_fdf writes for them
Forms == {"f1", "f2"}
FormFields(f) == IF f = "f1" THEN <<KeyA, KeyB>> ELSE <<KeyC>>

RECURSIVE FieldList(_)
FieldList(keys) ==
    IF keys = <<>> THEN <<>>
    ELSE fieldPartV \o FieldText(Head(keys)) \o FieldList(Tail(keys))

\* the complete dump of a form
Dump(f) == FdfHeader \o FieldList(FormFields(f)) \o FdfTrailer

\* the dump half written: cut inside the name of the last field
HalfDump(f) ==
    Slice(Dump(f), 0, Len(Dump(f)) - Len(FdfTrailer) - Len(KeyClose))

NoFdf == [exists |-> FALSE, data |-> <<>>]
Fdf(data) == [exists |-> TRUE, data |-> data]
NoGob == [state |-> "absent", fp |-> NoTemplate]
EmptyGob == [state |-> "empty", fp |-> NoTemplate]
Gob(fp) == [state |-> "full", fp |-> fp]

\* a value, and the values map of no value
ValueX == <<120>>
NoValues == <<>>

\* the number of tasks that call PdfFillFdf
NumFill == 2
FillTasks == 1..NumFill

NoDest == [kind |-> "absent", form |-> "", data |-> <<>>]
IdleFill == [pc |-> "idle", src |-> "f1", vals |-> NoValues,
             fp |-> NoTemplate, got |-> FALSE, derr |-> FALSE,
             err |-> "none", dest |-> NoDest, ran |-> {},
             gobWas |-> "unread"]

\* the state of Part 3 in the specifications that do not use it
FdfIdle ==
    /\ ft = [p \in FillTasks |-> IdleFill]
    /\ fdfFile = [f \in Forms |-> NoFdf]
    /\ gobFile = [f \in Forms |-> NoGob]
    /\ fillFdfMu = 0
    /\ fdfIn = <<>>
    /\ fdfOut = NoTemplate
    /\ fdfText = NotWritten

\* ---- splitFdf applied to a text
splitFdfCall ==
    /\ fdfOut = NoTemplate
    /\ fdfOut' = splitFdf(fdfIn)
    /\ UNCHANGED <<convVars, procVars, pdfVars, ft, fdfFile, gobFile, fillFdfMu, fdfText, fdfIn>>

InitSplitFdf ==
    /\ ft = [p \in FillTasks |-> IdleFill]
    /\ fdfFile = [f \in Forms |-> NoFdf]
    /\ gobFile = [f \in Forms |-> NoGob]
    /\ fillFdfMu = 0
    /\ fdfIn \in Texts
    /\ fdfOut = NoTemplate
    /\ fdfText = NotWritten

\* the values set: an ASCII letter, and U+0151 in UTF-8
ValueO == <<197, 145>>
SetValues == {ValueX, ValueO}

\* fp.Set(key, value) on the template, once; an unknown key changes nothing
fieldPartsSet(key, value) ==
    /\ fdfOut # NoTemplate
    /\ fdfText = NotWritten
    /\ \A k \in DOMAIN fdfOut.Values : fdfOut.Values[k] = <<>>
    /\ fdfOut' = Set(fdfOut, key, value).fp
    /\ UNCHANGED <<convVars, procVars, pdfVars, ft, fdfFile, gobFile,
                   fillFdfMu, fdfIn, fdfText>>

\* fp.WriteTo(&buf)
fieldPartsWriteTo ==
    /\ fdfOut # NoTemplate
    /\ fdfText = NotWritten
    /\ fdfText' = IF WriteToPanics(fdfOut) THEN Panicked ELSE WriteTo(fdfOut)
    /\ UNCHANGED <<convVars, procVars, pdfVars, ft, fdfFile, gobFile,
                   fillFdfMu, fdfIn, fdfOut>>

NextSplitFdf ==
    \/ splitFdfCall
    \/ \E key \in {KeyA, KeyB, KeyZ}, value \in SetValues :
          fieldPartsSet(key, value)
    \/ fieldPartsWriteTo

InitSplitFdfOnly == InitSplitFdf /\ ProcIdle /\ PdfIdle /\ ConvIdle
SpecSplitFdf == InitSplitFdfOnly /\ [][NextSplitFdf]_vars

\* ---- PdfFillFdf and getFdf, step by step
FtSet(p, r) == ft' = [ft EXCEPT ![p] = r]
Content(f) == [kind |-> "copy", form |-> f, data |-> <<>>]
Filled(f, data) == [kind |-> "filled", form |-> f, data |-> data]

\* what a call is given: a form and values for it
FillInputs == {<<"f1", NoValues>>, <<"f1", KeyA :> ValueX>>,
               <<"f1", KeyA :> ValueX @@ KeyB :> <<>>>>,
               <<"f1", KeyZ :> ValueX>>, <<"f2", KeyC :> ValueX>>,
               <<"f2", KeyA :> ValueX>>}

\* an unrecovered panic ends the process
Crashed == \E p \in FillTasks : ft[p].pc = "panic"

\* PdfFillFdf(destfn, inpfn, values) is called; destfn is the task's own
PdfFillFdfEnter(p, f, values) ==
    /\ ft[p].pc \in {"idle", "done"}
    /\ FtSet(p, [IdleFill EXCEPT !.src = f, !.vals = values,
                   !.pc = IF DOMAIN values = {} THEN "copyFile" ELSE "getFdf"])
    /\ UNCHANGED <<convVars, procVars, pdfVars, fdfFile, gobFile, fillFdfMu, fdfText, fdfIn, fdfOut>>

\* return copyFile(inpfn, destfn)
copyFile(p, ok) ==
    /\ ft[p].pc = "copyFile"
    /\ FtSet(p, [ft[p] EXCEPT !.pc = "done",
                   !.err = IF ok THEN "ok" ELSE "copy",
                   !.dest = IF ok THEN Content(ft[p].src) ELSE NoDest])
    /\ UNCHANGED <<convVars, procVars, pdfVars, fdfFile, gobFile, fillFdfMu, fdfText, fdfIn, fdfOut>>

\* a getFdf that returns whatever the decoding left of a file that is there
Decodes_AnyFile(g) == g.state # "absent"

\* os.Open(fdfFn + ".gob") and Decode(&fp) both gave err == nil
Decodes(g) == g.state = "full"

\* getFdf: os.Open(fdfFn + ".gob") and the decoding; a file that is absent
\* or does not decode is passed over.  gobWas keeps what the file was.
getFdfDecode(p) ==
    /\ ft[p].pc = "getFdf"
    /\ LET g == gobFile[ft[p].src]
       IN  FtSet(p, IF Decodes(g)
                      THEN [ft[p] EXCEPT !.pc = "Set", !.fp = g.fp, !.got = TRUE,
                                         !.gobWas = g.state]
                      ELSE [ft[p] EXCEPT !.pc = "ReadFile", !.gobWas = g.state])
    /\ UNCHANGED <<convVars, procVars, pdfVars, fdfFile, gobFile, fillFdfMu, fdfText, fdfIn, fdfOut>>

\* fdf, err := ioutil.ReadFile(fdfFn), then fp = splitFdf(fdf) if it is there
getFdfReadFile(p) ==
    /\ ft[p].pc = "ReadFile"
    /\ LET d == fdfFile[ft[p].src]
       IN  FtSet(p, IF d.exists
                      THEN [ft[p] EXCEPT !.pc = "OpenFile",
                                         !.fp = splitFdf(d.data)]
                      ELSE [ft[p] EXCEPT !.pc = "Lock"])
    /\ UNCHANGED <<convVars, procVars, pdfVars, fdfFile, gobFile, fillFdfMu, fdfText, fdfIn, fdfOut>>

\* fillFdfMu.Lock() before PdfDumpFdf
getFdfLock(p) ==
    /\ ft[p].pc = "Lock"
    /\ fillFdfMu = 0
    /\ fillFdfMu' = p
    /\ FtSet(p, [ft[p] EXCEPT !.pc = "PdfDumpFdf"])
    /\ UNCHANGED <<convVars, procVars, pdfVars, fdfFile, gobFile, fdfText, fdfIn, fdfOut>>

\* PdfDumpFdf: pdftk generate_fdf starts and creates its output file
PdfDumpFdfStart(p) ==
    /\ ft[p].pc = "PdfDumpFdf"
    /\ fdfFile' = [fdfFile EXCEPT ![ft[p].src] = Fdf(<<>>)]
    /\ FtSet(p, [ft[p] EXCEPT !.pc = "generate_fdf",
                              !.ran = @ \cup {"generate_fdf"}])
    /\ UNCHANGED <<convVars, procVars, pdfVars, gobFile, fillFdfMu, fdfText, fdfIn, fdfOut>>

\* pdftk has written a part of its output
PdfDumpFdfWrite(p) ==
    /\ ft[p].pc = "generate_fdf"
    /\ fdfFile[ft[p].src].data = <<>>
    /\ fdfFile' = [fdfFile EXCEPT ![ft[p].src] = Fdf(HalfDump(ft[p].src))]
    /\ UNCHANGED <<convVars, procVars, pdfVars, ft, gobFile, fillFdfMu, fdfText, fdfIn, fdfOut>>

\* pdftk ends: with the output complete, or failed or killed at the timeout
\* with the output as far as it got
PdfDumpFdfEnd(p, ok) ==
    /\ ft[p].pc = "generate_fdf"
    /\ fdfFile' = IF ok THEN [fdfFile EXCEPT ![ft[p].src] = Fdf(Dump(ft[p].src))]
                        ELSE fdfFile
    /\ FtSet(p, [ft[p] EXCEPT !.pc = "Unlock", !.derr = ~ok])
    /\ UNCHANGED <<convVars, procVars, pdfVars, gobFile, fillFdfMu, fdfText, fdfIn, fdfOut>>

\* fillFdfMu.Unlock(); if err != nil { return fp, err }
getFdfUnlock(p) ==
    /\ ft[p].pc = "Unlock"
    /\ fillFdfMu' = 0
    /\ FtSet(p, IF ft[p].derr
                  THEN [ft[p] EXCEPT !.pc = "done", !.err = "generate_fdf"]
                  ELSE [ft[p] EXCEPT !.pc = "ReadFile2"])
    /\ UNCHANGED <<convVars, procVars, pdfVars, fdfFile, gobFile, fdfText, fdfIn, fdfOut>>

\* if fdf, err = ioutil.ReadFile(fdfFn); err != nil { return fp, err }
\* and fp = splitFdf(fdf)
getFdfReadFile2(p) ==
    /\ ft[p].pc = "ReadFile2"
    /\ LET d == fdfFile[ft[p].src]
       IN  FtSet(p, IF d.exists
                      THEN [ft[p] EXCEPT !.pc = "OpenFile",
                                         !.fp = splitFdf(d.data)]
                      ELSE [ft[p] EXCEPT !.pc = "done", !.err = "ReadFile"])
    /\ UNCHANGED <<convVars, procVars, pdfVars, fdfFile, gobFile, fillFdfMu, fdfText, fdfIn, fdfOut>>

\* os.OpenFile(fdfFn+".gob", O_CREATE|O_TRUNC|O_WRONLY): the file is empty
getFdfOpenFile(p) ==
    /\ ft[p].pc = "OpenFile"
    /\ gobFile' = [gobFile EXCEPT ![ft[p].src] = EmptyGob]
    /\ FtSet(p, [ft[p] EXCEPT !.pc = "LockEncode"])
    /\ UNCHANGED <<convVars, procVars, pdfVars, fdfFile, fillFdfMu, fdfText, fdfIn, fdfOut>>

\* fillFdfMu.Lock() before the encoding
getFdfLockEncode(p) ==
    /\ ft[p].pc = "LockEncode"
    /\ fillFdfMu = 0
    /\ fillFdfMu' = p
    /\ FtSet(p, [ft[p] EXCEPT !.pc = "Encode"])
    /\ UNCHANGED <<convVars, procVars, pdfVars, fdfFile, gobFile, fdfText, fdfIn, fdfOut>>

\* gob.NewEncoder(f).Encode(fp); fillFdfMu.Unlock(); f.Close(); return fp, nil
\* An encoding that fails is logged and leaves the file as far as it got.
getFdfEncode(p, ok) ==
    /\ ft[p].pc = "Encode"
    /\ gobFile' = IF ok THEN [gobFile EXCEPT ![ft[p].src] = Gob(ft[p].fp)]
                        ELSE gobFile
    /\ fillFdfMu' = 0
    /\ FtSet(p, [ft[p] EXCEPT !.pc = "Set", !.got = TRUE])
    /\ UNCHANGED <<convVars, procVars, pdfVars, fdfFile, fdfText, fdfIn, fdfOut>>

\* the loop of fp.Set over values, then fp.WriteTo(&buf)
PdfFillFdfSet(p) ==
    /\ ft[p].pc = "Set"
    /\ LET r == SetAll(ft[p].fp, ft[p].vals, DOMAIN ft[p].vals)
       IN  FtSet(p, IF r.err
                      THEN [ft[p] EXCEPT !.pc = "done", !.err = "not exist"]
                    ELSE IF WriteToPanics(r.fp)
                      THEN [ft[p] EXCEPT !.pc = "panic", !.err = "panic"]
                    ELSE [ft[p] EXCEPT !.pc = "fill_form", !.fp = r.fp])
    /\ UNCHANGED <<convVars, procVars, pdfVars, fdfFile, gobFile, fillFdfMu, fdfText, fdfIn, fdfOut>>

\* pdftk inpfn fill_form - output destfn, with the written template as input
PdfFillFdfExecute(p, ok) ==
    /\ ft[p].pc = "fill_form"
    /\ FtSet(p, [ft[p] EXCEPT !.pc = "done",
                   !.ran = @ \cup {"fill_form"},
                   !.err = IF ok THEN "ok" ELSE "fill_form",
                   !.dest = IF ok THEN Filled(ft[p].src, WriteTo(ft[p].fp))
                                  ELSE NoDest])
    /\ UNCHANGED <<convVars, procVars, pdfVars, fdfFile, gobFile, fillFdfMu, fdfText, fdfIn, fdfOut>>

InitFdf == FdfIdle

\* the steps of task p
FillStep(p) ==
    \/ \E i \in FillInputs : PdfFillFdfEnter(p, i[1], i[2])
    \/ \E ok \in BOOLEAN : copyFile(p, ok)
    \/ getFdfDecode(p)
    \/ getFdfReadFile(p)
    \/ getFdfLock(p)
    \/ PdfDumpFdfStart(p)
    \/ PdfDumpFdfWrite(p)
    \/ \E ok \in BOOLEAN : PdfDumpFdfEnd(p, ok)
    \/ getFdfUnlock(p)
    \/ getFdfReadFile2(p)
    \/ getFdfOpenFile(p)
    \/ getFdfLockEncode(p)
    \/ \E ok \in BOOLEAN : getFdfEncode(p, ok)
    \/ PdfFillFdfSet(p)
    \/ \E ok \in BOOLEAN : PdfFillFdfExecute(p, ok)

\* the tasks together, in the runs where every encoding of a cache file
\* succeeds
NextFdf ==
    /\ ~Crashed
    /\ \E p \in FillTasks :
          /\ FillStep(p)
          /\ ft[p].pc = "Encode" => gobFile'[ft[p].src].state = "full"

\* one task, call after call
NextFill == ~Crashed /\ FillStep(1)

InitFdfOnly == InitFdf /\ ProcIdle /\ PdfIdle /\ ConvIdle
SpecFill == InitFdfOnly /\ [][NextFill]_vars

SpecFdf == InitFdfOnly /\ [][NextFdf]_vars

-----------------------------------------------------------------------------
(***************************************************************************)
(* Part 4: content types and converters (converter.go).                    *)
(*                                                                         *)
(* A content type is the sequence of the pieces of its text, cut where the *)
(* code looks: at the "/" and at the end of each prefix GetConverter tests.*)
(* "" is <<>>.  A file name is the sequence of its pieces with the         *)
(* extension, dot included, as the last one.                               *)
(***************************************************************************)
App(sub) == <<"application", "/", sub>>
Ooxml(sub) == <<"application", "/", "vnd.openxmlformats-officedocument.", sub>>
Oasis(sub) == <<"application", "/", "vnd.oasis.", sub>>
OctetStream == App("octet-stream")

\* the extensions of the file names followed, with len(ext)
ExtLen == ".docx" :> 5 @@ ".xlsx" :> 5 @@ ".pptx" :> 5 @@ ".zip" :> 4
          @@ ".pdf" :> 4 @@ ".jpeg" :> 5 @@ ".gz" :> 3 @@ ".html" :> 5
          @@ ".doc" :> 4 @@ ".DOCX" :> 5 @@ ".bin" :> 4

\* filepath.Ext: the last piece if it is an extension, else ""
Ext(fileName) ==
    IF fileName # <<>> /\ fileName[Len(fileName)] \in DOMAIN ExtLen
      THEN fileName[Len(fileName)] ELSE ""

\* len(ext) > 3
LongExt(ext) == ext # "" /\ ExtLen[ext] > 3

\* ExtContentType, by the extension with its dot (the code cuts it: ext[1:])
ExtContentType ==
    ".doc" :> App("vnd.ms-word")
    @@ ".docx" :> Ooxml("wordprocessingml.document")
    @@ ".dotx" :> Ooxml("wordprocessingml.template")
    @@ ".xls" :> App("vnd.ms-excel")
    @@ ".xlsx" :> Ooxml("spreadsheetml.sheet")
    @@ ".xltx" :> Ooxml("spreadsheetml.template")
    @@ ".ppt" :> App("vnd.ms-powerpoint")
    @@ ".pptx" :> Ooxml("presentationml.presentation")
    @@ ".ppsx" :> Ooxml("presentationml.slideshow")
    @@ ".potx" :> Ooxml("presentationml.template")
    @@ ".odg" :> Oasis("opendocument.graphics")
    @@ ".otg" :> Oasis("opendocument.graphics-template")
    @@ ".otp" :> Oasis("opendocument.presentation-template")
    @@ ".odp" :> Oasis("opendocument.presentation")
    @@ ".odm" :> Oasis("opendocument.text-master")
    @@ ".odt" :> Oasis("opendocument.text")
    @@ ".oth" :> Oasis("opendocument.text-web")
    @@ ".ott" :> Oasis("opendocument.text-template")
    @@ ".ods" :> Oasis("spreadsheet")
    @@ ".ots" :> Oasis("spreadsheet-template")
    @@ ".odc" :> Oasis("chart")
    @@ ".odf" :> Oasis("formula")
    @@ ".odb" :> Oasis("database")
    @@ ".odi" :> Oasis("image")
    @@ ".txt" :> <<"text", "/", "plain">>
    @@ ".msg" :> App("x-ole-storage")
    @@ ".jpg" :> <<"image", "/", "jpeg">>
    @@ ".jpeg" :> <<"image", "/", "jpeg">>
    @@ ".gif" :> <<"image", "/", "gif">>
    @@ ".png" :> <<"image", "/", "png">>

\* mime.TypeByExtension: Go's built-in table, and application/zip for .zip
\* as the system's mime.types has it; "" for an extension it does not know
TypeByExtension(ext) ==
    IF ext = ".html" THEN <<"text", "/", "html", "; charset=utf-8">>
    ELSE IF ext = ".pdf" THEN App("pdf")
    ELSE IF ext = ".zip" THEN App("zip")
    ELSE <<>>

\* What is sent: a body is taken by the signature it starts with.
Bodies == {"", "%PDF-", "PK", "text"}

\* mimemagic.Match(contentType, body): the type the signature of the body
\* tells, "" when it tells none
Match(contentType, body) ==
    IF body = "%PDF-" THEN App("pdf")
    ELSE IF body = "PK" THEN App("zip")
    ELSE <<>>

\* a fixCT that sees no archive of an Office document
IsDocx_Never(ext) == FALSE

\* case ".docx" of the switch on the extension of a zip
IsDocx(ext) == ext = ".docx"

\* fixCT
fixCT(contentType, fileName) ==
    LET ext == Ext(fileName)
    IN  IF contentType \in {App("zip"), App("x-zip-compressed")}
          THEN IF LongExt(ext) /\ IsDocx(ext)
                 THEN Ooxml("wordprocessingml.document")
               ELSE IF LongExt(ext) /\ ext = ".xlsx"
                 THEN Ooxml("spreadsheetml.sheet")
               ELSE IF LongExt(ext) /\ ext = ".pptx"
                 THEN Ooxml("presentationml.presentation")
               ELSE App("zip")
        ELSE IF contentType \in {App("x-rar-compressed"), App("x-rar")}
          THEN App("rar")
        ELSE IF contentType = <<"image", "/", "pdf">> THEN App("pdf")
        ELSE contentType

\* The converters, by name; NoConverter is nil.  A text converter made for
\* a charset is <<"NewTextConverter", charset>>.
NoConverter == <<>>
Converter(name) == <<name>>

\* the prefixes and the types of the office suites in GetConverter's default
OfficePrefixes ==
    {<<"application", "/", "vnd.oasis.">>,
     <<"application", "/", "vnd.openxmlformats-officedocument.">>,
     <<"application", "/", "vnd.ms-word">>,
     <<"application", "/", "vnd.ms-excel">>,
     <<"application", "/", "vnd.ms-powerpoint">>,
     <<"application", "/", "vnd.sun.xml.">>,
     <<"application", "/", "vnd.stardivision.">>,
     <<"application", "/", "x-star.">>}
OfficeTypes == {App("x-ole-storage"), App("msword")}

\* a GetConverter that knows no office prefix
IsOffice_Never(contentType) == FALSE

IsOffice(contentType) ==
    \/ \E pre \in OfficePrefixes : HasPrefix(contentType, pre)
    \/ contentType \in OfficeTypes

\* i := strings.Index(contentType, "/"); contentType[:i] when i > 0, else ""
MajorType(contentType) ==
    LET at == {i \in 1..Len(contentType) : contentType[i] = "/"}
    IN  IF at = {} THEN <<>>
        ELSE SubSeq(contentType, 1, (CHOOSE i \in at : \A j \in at : i <= j) - 1)

\* mediaType is the set of its <<key, value>> pairs; nil is the empty set
Charset(mediaType) ==
    {kv[2] : kv \in {x \in mediaType : x[1] = "charset" /\ x[2] # ""}}

\* GetConverter
GetConverter(contentType, mediaType) ==
    IF contentType = App("pdf") THEN Converter("PdfToPdf")
    ELSE IF contentType = App("rtf") THEN Converter("OfficeToPdf")
    ELSE IF contentType = <<"text", "/", "plain">>
      THEN IF Charset(mediaType) # {}
             THEN <<"NewTextConverter", The(Charset(mediaType))>>
             ELSE Converter("TextToPdf")
    ELSE IF contentType = <<"text", "/", "html">> THEN Converter("HTMLToPdf")
    ELSE IF contentType = <<"message", "/", "rfc822">>
      THEN Converter("MailToPdfZip")
    ELSE IF contentType = <<"multipart", "/", "related">>
      THEN Converter("MPRelatedToPdf")
    ELSE IF contentType = App("x-pkcs7-signature") THEN Converter("Skip")
    ELSE IF IsOffice(contentType) THEN Converter("OfficeToPdf")
    ELSE IF MajorType(contentType) = <<"image">> THEN Converter("ImageToPdf")
    ELSE IF MajorType(contentType) = <<"text">> THEN Converter("TextToPdf")
    ELSE NoConverter

\* a FixContentType that returns the sniffed type as it is
Sniffed_Raw(nct, fileName) == nct

\* return fixCT(nct, fileName), for the type nct the sniffing gave
Sniffed(nct, fileName) == fixCT(nct, fileName)

\* FixContentType
FixContentType(body, contentType, fileName) ==
    LET ct == fixCT(contentType, fileName)
        ext == Ext(fileName)
        useMagic == ext = ".pdf" /\ ct # App("pdf")
        nct == Match(ct, body)
        c == GetConverter(ct, {})
    IN  IF useMagic /\ nct # <<>> THEN Sniffed(nct, fileName)
        ELSE IF c = NoConverter /\ nct # <<>> THEN Sniffed(nct, fileName)
        ELSE IF /\ fileName # <<>>
                /\ (ct = <<>> \/ ct = OctetStream \/ c = NoConverter)
                /\ LongExt(ext)
                /\ ext \in DOMAIN ExtContentType
          THEN fixCT(ExtContentType[ext], fileName)
        ELSE IF /\ fileName # <<>>
                /\ (ct = <<>> \/ ct = OctetStream \/ c = NoConverter)
                /\ LongExt(ext)
                /\ TypeByExtension(ext) # <<>>
          THEN fixCT(TypeByExtension(ext), fileName)
        ELSE ct

\* The content types tried: those the code names, one or two under each
\* prefix rule, and some it knows nothing of.
ContentTypes ==
    {<<>>, OctetStream, App("zip"), App("x-zip-compressed"),
     App("x-rar-compressed"), App("x-rar"), App("rar"),
     <<"image", "/", "pdf">>, App("pdf"), App("rtf"),
     <<"text", "/", "plain">>, <<"text", "/", "html">>,
     <<"text", "/", "html", "; charset=utf-8">>, <<"text", "/", "csv">>,
     <<"message", "/", "rfc822">>, <<"multipart", "/", "related">>,
     App("x-pkcs7-signature"), App("json"), App("x-as400attachment"),
     <<"image", "/", "png">>, <<"image", "/", "jpeg">>,
     <<"audio", "/", "mpeg">>, <<"video", "/", "mp4">>,
     <<"model", "/", "stl">>, <<"image">>, <<"/", "png">>,
     Ooxml("wordprocessingml.document"), Ooxml("spreadsheetml.sheet"),
     Oasis("opendocument.text"),
     App("vnd.ms-word"), <<"application", "/", "vnd.ms-excel", ".sheet.12">>,
     App("vnd.ms-powerpoint"), App("x-ole-storage"), App("msword"),
     <<"application", "/", "vnd.sun.xml.", "writer">>,
     <<"application", "/", "vnd.stardivision.", "writer">>,
     <<"application", "/", "x-star.", "writer">>}

FileNames ==
    {<<>>, <<"report", ".docx">>, <<"sheet", ".xlsx">>, <<"slides", ".pptx">>,
     <<"archive", ".zip">>, <<"scan", ".pdf">>, <<"photo", ".jpeg">>,
     <<"letter", ".doc">>, <<"page", ".html">>, <<"data", ".bin">>,
     <<"a", ".gz">>, <<"REPORT", ".DOCX">>, <<"noext">>}

MediaTypes == {{}, {<<"charset", "">>}, {<<"charset", "iso-8859-2">>},
               {<<"format", "flowed">>}}

\* FixContentType(body, contentType, fileName) is called
FixContentTypeCall ==
    /\ ctCall.step = "in"
    /\ ctCall' = [ctCall EXCEPT !.step = "fixed",
                    !.fixed = FixContentType(ctCall.body, ctCall.ct, ctCall.fn)]
    /\ UNCHANGED <<procVars, pdfVars, fdfVars, pdfCall>>

\* FixContentType is called on its own result, for the same body and name
FixContentTypeAgain ==
    /\ ctCall.step = "fixed"
    /\ ctCall' = [ctCall EXCEPT !.step = "again",
                    !.again = FixContentType(ctCall.body, ctCall.fixed, ctCall.fn)]
    /\ UNCHANGED <<procVars, pdfVars, fdfVars, pdfCall>>

\* GetConverter(contentType, mediaType) is called
GetConverterCall ==
    /\ ctCall.step = "in"
    /\ ctCall' = [ctCall EXCEPT !.step = "converter",
                    !.conv = GetConverter(ctCall.ct, ctCall.media)]
    /\ UNCHANGED <<procVars, pdfVars, fdfVars, pdfCall>>

InitCt ==
    /\ ctCall \in {[IdleCt EXCEPT !.step = "in", !.body = b, !.ct = t,
                                  !.fn = f, !.media = m] :
                     b \in Bodies, t \in ContentTypes, f \in FileNames,
                     m \in MediaTypes}
    /\ pdfCall = IdlePdfCall

NextCt == FixContentTypeCall \/ FixContentTypeAgain \/ GetConverterCall

InitCtOnly == InitCt /\ ProcIdle /\ PdfIdle /\ FdfIdle
SpecCt == InitCtOnly /\ [][NextCt]_vars

-----------------------------------------------------------------------------
(* OfficeToPdf and HTMLToPdf.  A path is the sequence of its pieces: the   *)
(* directory, "/", the name, and the extension, dot included, as the last. *)

PathExts == {".pdf", ".raw", ".html", ".doc"}
Last(s) == s[Len(s)]
Front(s) == SubSeq(s, 1, Len(s) - 1)

\* filepath.Dir, filepath.Base and filepath.Join of a directory and a name
Slashes(p) == {i \in 1..Len(p) : p[i] = "/"}
LastSlash(p) == CHOOSE i \in Slashes(p) : \A j \in Slashes(p) : j <= i
Dir(p) == SubSeq(p, 1, LastSlash(p) - 1)
Base(p) == SubSeq(p, LastSlash(p) + 1, Len(p))
Join(dn, name) == dn \o <<"/">> \o name

\* nakeFilename: the path without its extension
nakeFilename(fn) ==
    IF fn # <<>> /\ Last(fn) \in PathExts THEN Front(fn) ELSE fn

\* a file of the disk
File(path, kind) == [path |-> path, kind |-> kind]
Paths(disk) == {f.path : f \in disk}
Write(disk, path, kind) == {f \in disk : f.path # path} \cup {File(path, kind)}
Remove(disk, path) == {f \in disk : f.path # path}

\* what can go wrong in a call, one thing at most
RenderFails == {"none", "create", "copy", "run", "nooutput", "empty", "move"}

\* lofficeConvert(ctx, outDir, inpfn): LibreOffice leaves the PDF in outDir
\* under the name of the input without its extension; gives [disk, err]
lofficeConvert(outDir, inpfn, disk, fail) ==
    LET outfn == Join(outDir, Base(nakeFilename(inpfn)) \o <<".pdf">>)
    IN  IF fail = "run" THEN [disk |-> disk, err |-> TRUE]
        ELSE IF fail = "nooutput" THEN [disk |-> disk, err |-> TRUE]
        ELSE [disk |-> Write(disk, outfn, "pdf"), err |-> FALSE]

\* wkhtmltopdf(ctx, outfn, inpfn)
wkhtmltopdf(outfn, inpfn, disk, fail) ==
    IF fail \in {"run", "nooutput"} THEN [disk |-> disk, err |-> TRUE]
    ELSE IF fail = "empty"
      THEN [disk |-> Write(disk, outfn, "empty"), err |-> TRUE]
    ELSE [disk |-> Write(disk, outfn, "pdf"), err |-> FALSE]

\* moveFile(outfn, destfn)
moveFile(from, to, disk, fail) ==
    IF fail = "move" THEN [disk |-> disk, err |-> TRUE]
    ELSE [disk |-> Write(Remove(disk, from), to, "pdf"), err |-> FALSE]

\* OfficeToPdf(ctx, destfn, r, contentType); gives [disk, err]
OfficeToPdf(destfn, disk, fail) ==
    LET stem == IF HasSuffix(destfn, <<".pdf">>) THEN Front(destfn) ELSE destfn
        inpfn == stem \o <<".raw">>
        d1 == Write(disk, inpfn, "raw")
        lc == lofficeConvert(Dir(stem), inpfn, d1, fail)
    IN  IF fail = "create" THEN [disk |-> disk, err |-> TRUE]
        ELSE IF fail = "copy" THEN [disk |-> Remove(d1, inpfn), err |-> TRUE]
        ELSE [disk |-> Remove(lc.disk, inpfn), err |-> lc.err]

\* HTMLToPdf(ctx, destfn, r, contentType): src is the name of the file r is,
\* or <<>> when r is no file; wk: *ConfWkhtmltopdf != ""
HTMLToPdf(destfn, src, wk, leave, disk, fail) ==
    LET isFile == src # <<>> /\ src \in Paths(disk)
        inpfn == IF isFile THEN src ELSE nakeFilename(destfn) \o <<".html">>
        d1 == IF isFile THEN disk ELSE Write(disk, inpfn, "html")
        dn == Dir(destfn)
        outfn == Join(dn, Base(nakeFilename(inpfn)) \o <<".pdf">>)
        r == IF wk THEN wkhtmltopdf(destfn, inpfn, d1, fail)
             ELSE LET lc == lofficeConvert(dn, inpfn, d1, fail)
                  IN  IF lc.err \/ outfn = destfn THEN lc
                      ELSE moveFile(outfn, destfn, lc.disk, fail)
        tidy(d) == IF isFile \/ leave THEN d ELSE Remove(d, inpfn)
    IN  IF ~isFile /\ fail = "create" THEN [disk |-> disk, err |-> TRUE]
        ELSE IF ~isFile /\ fail = "copy" THEN [disk |-> tidy(d1), err |-> TRUE]
        ELSE [disk |-> tidy(r.disk), err |-> r.err]

\* the destinations and the HTML sources tried
Destfns == {<<"d", "/", "out", ".pdf">>, <<"d", "/", "out">>,
            <<"d", "/", "out", ".doc">>, <<"d", "/", "part.1", ".pdf">>}
HtmlSources == {<<>>, <<"e", "/", "page", ".html">>,
                <<"d", "/", "out", ".html">>}

\* a call of OfficeToPdf
OfficeToPdfCall(fail) ==
    /\ pdfCall.step = "in"
    /\ pdfCall.src = <<>>
    /\ \E r \in {OfficeToPdf(pdfCall.destfn, pdfCall.disk, fail)} :
          pdfCall' = [pdfCall EXCEPT !.step = "done", !.op = "OfficeToPdf",
                                     !.disk = r.disk, !.err = r.err]
    /\ UNCHANGED <<procVars, pdfVars, fdfVars, ctCall>>

\* a call of HTMLToPdf
HTMLToPdfCall(fail) ==
    /\ pdfCall.step = "in"
    /\ \E r \in {HTMLToPdf(pdfCall.destfn, pdfCall.src, pdfCall.wk,
                           pdfCall.leave, pdfCall.disk, fail)} :
          pdfCall' = [pdfCall EXCEPT !.step = "done", !.op = "HTMLToPdf",
                                     !.disk = r.disk, !.err = r.err]
    /\ UNCHANGED <<procVars, pdfVars, fdfVars, ctCall>>

InitToPdf ==
    /\ ctCall = IdleCt
    /\ pdfCall \in {[IdlePdfCall EXCEPT !.step = "in", !.destfn = d, !.src = s,
                       !.wk = w, !.leave = l,
                       !.disk = IF s = <<>> THEN {} ELSE {File(s, "html")}] :
                      d \in Destfns, s \in HtmlSources, w \in BOOLEAN,
                      l \in BOOLEAN}

NextToPdf ==
    \/ \E fail \in RenderFails : OfficeToPdfCall(fail)
    \/ \E fail \in RenderFails : HTMLToPdfCall(fail)

InitToPdfOnly == InitToPdf /\ ProcIdle /\ PdfIdle /\ FdfIdle
SpecToPdf == InitToPdfOnly /\ [][NextToPdf]_vars



-----------------------------------------------------------------------------
(* The specifications of Part 2. *)

InitCleanOnly == InitClean /\ ProcIdle /\ FdfIdle /\ ConvIdle
SpecClean == InitCleanOnly /\ [][NextClean]_vars

InitSplitOnly == InitSplit /\ ProcIdle /\ FdfIdle /\ ConvIdle
SpecSplit == InitSplitOnly /\ [][NextSplit]_vars

InitMergeOnly == InitMerge /\ ProcIdle /\ FdfIdle /\ ConvIdle
SpecMerge == InitMergeOnly /\ [][NextMerge]_vars

(***************************************************************************)
(* C4 as stated: two successive calls of PdfClean on the same path run the *)
(* clean tool at most once in total, the second call running no tool.  A   *)
(* first call that fails records nothing, so the second runs the tool      *)
(* again.                                                                  *)
(***************************************************************************)
SuccessiveCleans ==
    /\ prev.op = "PdfClean"
    /\ last.op = "PdfClean"
    /\ prev.fn = last.fn

C4_AtMostOnceInTotal ==
    SuccessiveCleans =>
        /\ Cardinality(RunsOf(prev.log, Cleaners))
             + Cardinality(RunsOf(last.log, Cleaners)) <= 1
        /\ last.log = <<>>

\* C4 amended: after a PdfClean of a path that succeeded, the next PdfClean
\* of the same path finds it in the memo: it runs no tool, returns no error
\* and leaves the files and the memo as they are.
C4_SecondCleanShortCuts ==
    (SuccessiveCleans /\ ~prev.err) =>
        /\ last.log = <<>>
        /\ ~last.err
        /\ files = last.before
        /\ alreadyCleaned = last.memoBefore

\* the first call ran a cleaner and replaced the file, the second ran nothing
C4_Witness ==
    /\ SuccessiveCleans
    /\ ~prev.err
    /\ RunsOf(prev.log, Cleaners) # {}
    /\ last.fn \in alreadyCleaned.paths
    /\ last.log = <<>>

-----------------------------------------------------------------------------
(* The specifications of Part 1. *)

(***************************************************************************)
(* C8: when the page-count probe reports exactly 1 page, PdfSplit returns  *)
(* without error a list holding just the input file name, makes no         *)
(* directory, adds no file, and runs no page-separation tool.              *)
(***************************************************************************)
Separators == {"pdfseparate", "pdftk burst"}
ExistingPaths(fs) == {p \in AllPaths : Exists(fs, p)}

PageOf(name) ==
    IF \E e \in splitDir : e.name = name
      THEN (CHOOSE e \in splitDir : e.name = name).page
      ELSE 0

SplitDone == last.op = "PdfSplit" /\ ~last.err /\ last.n >= 2

C9_PagesInOrder ==
    SplitDone =>
        /\ Len(last.ret) = last.n
        /\ \A k \in 1..Len(last.ret) :
              /\ last.ret[k].dir = "destdir"
              /\ KeepName(last.ret[k].name, SplitPrefix(last.fn))
              /\ PageOf(last.ret[k].name) = k


(***************************************************************************)
(* C10: PdfMerge with fewer than two files runs no external tool; with no  *)
(* file it returns an error and leaves the destination as it was; with one *)
(* file and no error, the destination holds exactly what that file holds.  *)
(***************************************************************************)
C10_FewFilesNeedNoTool ==
    (last.op = "PdfMerge" /\ Len(last.fns) < 2) =>
        /\ last.log = <<>>
        /\ Len(last.fns) = 0 => (last.err /\ files = last.before)
        /\ (Len(last.fns) = 1 /\ ~last.err) =>
              /\ Exists(files, DestPath)
              /\ files[DestPath] = last.before[last.fns[1]]
              /\ files[last.fns[1]] = last.before[last.fns[1]]

\* one file has been merged into a destination that held something else
C10_Witness ==
    /\ last.op = "PdfMerge"
    /\ Len(last.fns) = 1
    /\ ~last.err
    /\ last.before[DestPath] # last.before[last.fns[1]]
    /\ files[DestPath] = last.before[last.fns[1]]


(***************************************************************************)
(* C11: PdfMerge with two or more files runs pdfunite first, when it is    *)
(* there, with the files in the caller's order; pdftk cat runs, with the   *)
(* same files in the same order, only if pdfunite is not there or failed;  *)
(* the call succeeds iff one of the tools run succeeded, and the error     *)
(* returned on failure is that of pdftk cat.                               *)
(***************************************************************************)
MergedMany == last.op = "PdfMerge" /\ Len(last.fns) >= 2
UniteRan == last.log # <<>> /\ last.log[1] = Ran("pdfunite", last.fns)
CatRan == last.log # <<>> /\ last.log[Len(last.log)] = Ran("pdftk cat", last.fns)
UniteWent == UniteRan /\ UniteOk(last.before, last.fns, last.mfail)
CatWent == CatRan /\ CatOk(conf, last.before, last.fns, last.mfail)

C11_UniteThenCat ==
    MergedMany =>
        /\ UniteRan <=> conf.pdfunite
        /\ CatRan <=> ~UniteWent
        /\ last.log \in {<<Ran("pdfunite", last.fns)>>,
                          <<Ran("pdftk cat", last.fns)>>,
                          <<Ran("pdfunite", last.fns), Ran("pdftk cat", last.fns)>>}
        /\ ~last.err <=> (UniteWent \/ CatWent)
        /\ last.err => last.by = "pdftk cat"
        /\ ~last.err => files[DestPath] =
                           Merged([i \in 1..Len(last.fns) |-> last.before[last.fns[i]]])

\* pdfunite failed on two files given as b.pdf, a.pdf and pdftk cat merged them
C11_Witness ==
    /\ MergedMany
    /\ last.fns = << <<"b.pdf">>, <<"a.pdf">> >>
    /\ last.log = <<Ran("pdfunite", last.fns), Ran("pdftk cat", last.fns)>>
    /\ ~last.err
    /\ files[DestPath].parts[1].pages = last.before[<<"b.pdf">>].pages

(***************************************************************************)
(* C12: a call of PdfPageNum probes its file at most twice and calls       *)
(* PdfClean at most once: if the first probe succeeds, its result is       *)
(* returned and nothing else is run; otherwise PdfClean is called exactly  *)
(* once, whatever it returns, and then the file is probed exactly once     *)
(* more, and the result and the error of that probe are returned.          *)
(***************************************************************************)
ProbesOf(lg, fn) == {i \in 1..Len(lg) : lg[i] = Ran("probe", <<fn>>)}
CleanCalls(lg) == RunsOf(lg, {"PdfClean"})
FirstProbe == pdfPageNum(conf, last.before, last.fn)
LastProbe == pdfPageNum(conf, files, last.fn)

C12_ProbeCleanProbe ==
    last.op = "PdfPageNum" =>
        /\ Cardinality(ProbesOf(last.log, last.fn)) <= 2
        /\ Cardinality(CleanCalls(last.log)) <= 1
        /\ ~FirstProbe.err =>
              /\ last.log = <<Ran("probe", <<last.fn>>)>>
              /\ last.n = FirstProbe.n
              /\ ~last.err
              /\ files = last.before
        /\ FirstProbe.err =>
              /\ ProbesOf(last.log, last.fn) = {1, Len(last.log)}
              /\ CleanCalls(last.log) = {2}
              /\ Len(last.log) >= 3
              /\ last.n = LastProbe.n
              /\ last.err = LastProbe.err

\* the first probe failed, the cleaner repaired the file, the second probe
\* counted its pages
C12_Witness ==
    /\ last.op = "PdfPageNum"
    /\ FirstProbe.err
    /\ RunsOf(last.log, Cleaners) # {}
    /\ ~last.err
    /\ last.n = 2

(***************************************************************************)
(* C20: whenever the page count of the input is 0 or cannot be determined  *)
(* (the last probe of PdfPageNum returns an error), PdfSplit returns an    *)
(* error, makes no working directory and runs no page-separation tool.     *)
(***************************************************************************)
PageCountUnknown == last.n = 0 \/ LastProbe.err

C20_NoSplitWithoutPageCount ==
    (last.op = "PdfSplit" /\ PageCountUnknown) =>
        /\ last.err
        /\ ~dirsMade
        /\ RunsOf(last.log, Separators) = {}

(***************************************************************************)
(* C19: the memo of cleaned files never holds more than 1024 entries.      *)
(***************************************************************************)
C19_MemoAtMostCap == MemoLen(alreadyCleaned) <= MemoCap

(***************************************************************************)
(* C18: a cache file that does not decode is a cache miss: getFdf returns  *)
(* no error for it but the template parsed from the FDF text, the one a    *)
(* call without a cache file gets, and it has written the cache again.     *)
(***************************************************************************)
ColdTemplate(f) == splitFdf(fdfFile[f].data)
GotPastBadGob(p) == ft[p].gobWas = "empty" /\ ft[p].pc = "Set"

C18_BadGobIsAMiss ==
    \A p \in FillTasks :
        /\ ft[p].gobWas = "empty" =>
              ft[p].err \in {"none", "ok", "not exist", "fill_form", "panic"}
        /\ GotPastBadGob(p) =>
              /\ ft[p].got
              /\ ft[p].err = "none"
              /\ fdfFile[ft[p].src].exists
              /\ ft[p].fp = ColdTemplate(ft[p].src)
              /\ gobFile[ft[p].src] \in {Gob(ColdTemplate(ft[p].src)), EmptyGob}

\* the cache file did not decode, and the call has the template and has
\* written a cache file that decodes
C18_Witness ==
    /\ GotPastBadGob(1)
    /\ ft[1].fp = ColdTemplate(ft[1].src)
    /\ ft[1].fp.Fields # <<>>
    /\ gobFile[ft[1].src] = Gob(ft[1].fp)

(***************************************************************************)
(* C13: FixContentType is idempotent: called on its own result, with the   *)
(* same body and file name, it returns that result again; and it returns a *)
(* string for every input.                                                 *)
(***************************************************************************)
C13_FixContentTypeIdempotent ==
    /\ ctCall.step \in {"fixed", "again"} => ctCall.fixed \in Seq(STRING)
    /\ ctCall.step = "again" => ctCall.again = ctCall.fixed

\* an undeclared type resolved by the file name, and resolved again
C13_Witness ==
    /\ ctCall.step = "again"
    /\ ctCall.ct = OctetStream
    /\ ctCall.fixed = Ooxml("wordprocessingml.document")
    /\ ctCall.again = ctCall.fixed

(***************************************************************************)
(* C14: for the declared type application/zip, FixContentType returns the  *)
(* Office-XML type of a file name ending in .docx, .xlsx or .pptx, and     *)
(* exactly application/zip for every other file name.                      *)
(***************************************************************************)
ZipResolved(fileName) ==
    IF HasSuffix(fileName, <<".docx">>) THEN Ooxml("wordprocessingml.document")
    ELSE IF HasSuffix(fileName, <<".xlsx">>) THEN Ooxml("spreadsheetml.sheet")
    ELSE IF HasSuffix(fileName, <<".pptx">>)
      THEN Ooxml("presentationml.presentation")
    ELSE App("zip")

C14_ZipByFileName ==
    (ctCall.step = "fixed" /\ ctCall.ct = App("zip")) =>
        ctCall.fixed = ZipResolved(ctCall.fn)

(***************************************************************************)
(* C15: for a content type that is none of the exact entries and falls     *)
(* under none of the office, image, text, audio and video rules,           *)
(* GetConverter returns the Office converter.                              *)
(***************************************************************************)
ExactTypes == {App("pdf"), App("rtf"), <<"text", "/", "plain">>,
               <<"text", "/", "html">>, <<"message", "/", "rfc822">>,
               <<"multipart", "/", "related">>, App("x-pkcs7-signature")}
OfficeVendor(ct) ==
    \/ /\ Len(ct) >= 3
       /\ ct[1] = "application" /\ ct[2] = "/"
       /\ ct[3] \in {"vnd.oasis.", "vnd.openxmlformats-officedocument.",
                     "vnd.ms-word", "vnd.ms-excel", "vnd.ms-powerpoint",
                     "vnd.sun.xml.", "vnd.stardivision.", "x-star."}
    \/ ct \in {App("x-ole-storage"), App("msword")}
Major(ct) == IF Len(ct) >= 2 /\ ct[2] = "/" THEN ct[1] ELSE ""
NoRule(ct) ==
    /\ ct \notin ExactTypes
    /\ ~OfficeVendor(ct)
    /\ Major(ct) \notin {"image", "text", "audio", "video"}

C15_UnknownIsOffice ==
    (ctCall.step = "converter" /\ NoRule(ctCall.ct)) =>
        ctCall.conv = Converter("OfficeToPdf")

(***************************************************************************)
(* C16: where no exact entry applies, GetConverter returns the Image       *)
(* converter for every image/ type, the Text converter for every text/     *)
(* type, the Office converter for every type of a known office vendor      *)
(* prefix, and no converter for every audio/ and video/ type; the result   *)
(* is the same for the same arguments.                                     *)
(***************************************************************************)
C16_PrefixRules ==
    (ctCall.step = "converter" /\ ctCall.ct \notin ExactTypes) =>
        /\ Major(ctCall.ct) = "image" => ctCall.conv = Converter("ImageToPdf")
        /\ Major(ctCall.ct) = "text" => ctCall.conv = Converter("TextToPdf")
        /\ OfficeVendor(ctCall.ct) => ctCall.conv = Converter("OfficeToPdf")
        /\ Major(ctCall.ct) \in {"audio", "video"} => ctCall.conv = NoConverter
        /\ \A m \in MediaTypes : GetConverter(ctCall.ct, m) = ctCall.conv

\* a StarOffice type gets the Office converter
C16_Witness ==
    /\ ctCall.step = "converter"
    /\ ctCall.ct = <<"application", "/", "vnd.sun.xml.", "writer">>
    /\ ctCall.conv = Converter("OfficeToPdf")

(***************************************************************************)
(* C17: whenever OfficeToPdf or HTMLToPdf returns without error, a PDF is  *)
(* at the very path destfn it was given, whatever destfn is.               *)
(***************************************************************************)
C17_PdfAtDestfn ==
    (pdfCall.step = "done" /\ ~pdfCall.err) =>
        File(pdfCall.destfn, "pdf") \in pdfCall.disk

(***************************************************************************)
(* C21: a PdfClean whose cleaner, rewrite or rename fails returns an error *)
(* and leaves the original file and the memo as they were; the memo gets   *)
(* the path and the hash only in a call that has put the cleaned file in   *)
(* the place of the original.                                              *)
(***************************************************************************)
CleanCall == last.op = "PdfClean"
Replaced == files[last.fn] = Rewritten(last.before[last.fn])

C21_FailedCleanKeepsAll ==
    CleanCall =>
        /\ last.err => /\ files[last.fn] = last.before[last.fn]
                       /\ alreadyCleaned = last.memoBefore
        /\ alreadyCleaned # last.memoBefore =>
              /\ ~last.err
              /\ Replaced
              /\ ~Exists(files, CleanedPath(last.fn))
              /\ last.fn \in alreadyCleaned.paths
              /\ getHash(files, last.fn) \in alreadyCleaned.hashes
        /\ (~last.err /\ last.log # <<>>) =>
              Replaced /\ last.fn \in alreadyCleaned.paths

\* the cleaner ran and left the cleaned file, and the rename failed
C21_Witness ==
    /\ CleanCall
    /\ last.err
    /\ RunsOf(last.log, Cleaners) # {}
    /\ Exists(files, CleanedPath(last.fn))
    /\ files[last.fn] = last.before[last.fn]
    /\ alreadyCleaned = last.memoBefore

(***************************************************************************)
(* C22 as stated: for every text x whose parse has one part more than it   *)
(* has fields, WriteTo of splitFdf(x) with all values empty writes x byte  *)
(* for byte; and after Set(k, v) with v not empty, what is written differs *)
(* from x only in the value slot of field k, which holds 0xFE 0xFF and the *)
(* UTF-16 units of v, high byte first.  The value slot of a field is the   *)
(* "/V ()" that the text up to the next slot names the field after.        *)
(***************************************************************************)
Written == fdfText \notin {NotWritten, Panicked}
CountsFit == Len(fdfOut.Parts) = Len(fdfOut.Fields) + 1
SetKeys == {k \in DOMAIN fdfOut.Values : fdfOut.Values[k] # <<>>}

\* "\n<<\n/V (" and ")\n", and the values in UTF-16 with the mark before
SlotOpen == <<10, 60, 60, 10, 47, 86, 32, 40>>
SlotClose == <<41, 10>>
Marked == ValueX :> <<254, 255, 0, 120>> @@ ValueO :> <<254, 255, 1, 81>>

\* the text of the parts with the slot before each part that names a key
\* with a value filled, and every other slot empty
RECURSIVE Refilled(_, _, _)
Refilled(parts, vals, i) ==
    IF i = Len(parts) THEN parts[i]
    ELSE LET key == PartKey(parts[i + 1])
             filled == /\ key # <<>>
                       /\ key[1] \in DOMAIN vals
                       /\ vals[key[1]] # <<>>
         IN  parts[i]
               \o (IF filled THEN SlotOpen \o Marked[vals[key[1]]] \o SlotClose
                             ELSE fieldPartV)
               \o Refilled(parts, vals, i + 1)

Aligned(parts) ==
    /\ PartKey(parts[1]) = <<>>
    /\ \A i \in 2..Len(parts) : PartKey(parts[i]) # <<>>

CompleteParse(f) == splitFdf(Dump(f))

C5_TemplatesAreCompleteParses ==
    /\ \A p \in FillTasks :
          (ft[p].got /\ ft[p].pc = "Set") => ft[p].fp = CompleteParse(ft[p].src)
    /\ \A f \in Forms :
          gobFile[f].state = "full" => gobFile[f].fp = CompleteParse(f)

(***************************************************************************)
(* C6: PdfFillFdf runs the form-fill tool only when values is not empty    *)
(* and every key of values is a field of the template; with empty values   *)
(* no tool runs and a call that succeeds leaves the destination a copy of  *)
(* the source; with a key that is no field of the template the call fails  *)
(* with the unknown-field error, the fill tool is not run and no           *)
(* destination is written.                                                 *)
(***************************************************************************)
KnownKeys(p) == DOMAIN ft[p].vals \subseteq Range(ft[p].fp.Fields)

C6_FillToolOnlyForKnownKeys ==
    \A p \in FillTasks :
       /\ "fill_form" \in ft[p].ran =>
             (DOMAIN ft[p].vals # {} /\ KnownKeys(p))
       /\ (ft[p].pc = "done" /\ DOMAIN ft[p].vals = {}) =>
             /\ ft[p].ran = {}
             /\ ft[p].err = "ok" => ft[p].dest = Content(ft[p].src)
             /\ ft[p].err # "ok" => ft[p].dest = NoDest
       /\ (ft[p].pc = "done" /\ ft[p].got /\ ~KnownKeys(p)) =>
             /\ ft[p].err = "not exist"
             /\ "fill_form" \notin ft[p].ran
             /\ ft[p].dest = NoDest

\* a call with a key that is no field of the complete template has returned
C6_Witness ==
    \E p \in FillTasks :
       /\ ft[p].pc = "done"
       /\ ft[p].got
       /\ ft[p].fp = CompleteParse(ft[p].src)
       /\ ~KnownKeys(p)
       /\ ft[p].err = "not exist"

(***************************************************************************)
(* C7: every template splitFdf produces, whatever the text, has one part   *)
(* more than it has fields, and its fields are in the order in which they  *)
(* occur in the text.                                                      *)
(***************************************************************************)
\* the fields occur in the text, one after the other
RECURSIVE OccurInOrder(_, _)
OccurInOrder(text, keys) ==
    IF keys = <<>> THEN TRUE
    ELSE LET i == Index(text, FieldText(Head(keys)))
         IN  /\ i >= 0
             /\ OccurInOrder(Slice(text, i + Len(FieldText(Head(keys))),
                                   Len(text)), Tail(keys))

C7_OnePartMoreThanFields ==
    fdfOut # NoTemplate =>
        /\ Len(fdfOut.Parts) = Len(fdfOut.Fields) + 1
        /\ OccurInOrder(fdfIn, fdfOut.Fields)


NextProc ==
    \/ \E p \in Tasks : Begin(p)
    \/ \E p \in Tasks : lofficeConvertEnter(p)
    \/ \E p \in Tasks : lofficeMuLock(p)
    \/ \E p \in Tasks : lofficePortLockLock(p)
    \/ \E p \in Tasks : runWithContextStart(p)
    \/ \E p \in Tasks : runWithContextEnd(p)
    \/ \E p \in Tasks : lofficeConvertReturn(p)
    \/ \E p \in Tasks : pdfPageNumStart(p)
    \/ \E p \in Tasks : pdfPageNumEnd(p)
    \/ \E p \in Tasks : LoadConfigProbeStart(p)
    \/ \E p \in Tasks : LoadConfigProbeEnd(p)
    \/ \E p \in Tasks : LoadConfigLock(p)
    \/ \E p \in Tasks : LoadConfigUnlock(p)
    \/ OtherInstanceLock
    \/ OtherInstanceUnlock

InitProcOnly == InitProc /\ PdfIdle /\ FdfIdle /\ ConvIdle
SpecProc == InitProcOnly /\ [][NextProc]_vars

\* The steps of the locking operations that the Go scheduler runs when they
\* are possible.  Begin is not among them: nothing obliges a caller to call.
ProcStep(p) ==
    \/ lofficeConvertEnter(p)
    \/ runWithContextEnd(p)
    \/ lofficeConvertReturn(p)
    \/ LoadConfigProbeStart(p)
    \/ LoadConfigProbeEnd(p)
    \/ LoadConfigUnlock(p)

\* The steps of task p that wait for a lock or for a token of ConcLimit.
ProcLock(p) ==
    \/ lofficeMuLock(p)
    \/ lofficePortLockLock(p)
    \/ runWithContextStart(p)
    \/ LoadConfigLock(p)

LiveTasks == 1..NumLive

\* Fairness: some runnable goroutine runs and every child process ends or is
\* killed at its deadline (weak fairness of the tasks' steps); sync.Mutex,
\* the rate limiter and the port-bind retry loop give the lock to some waiter
\* when it is free again and again (strong fairness of the acquisitions);
\* another instance's renderer ends too.  The conditions are stated for the
\* tasks together, which assumes less than stating them for each task.
\* the operations that take a lock or a token
LockingOps == {"lofficeConvert", "execute", "LoadConfig"}

BeginLocking(p) == BeginOneOf(p, LockingOps)

\* The same program with NumLive callers, which call the locking operations.
NextLive ==
    \/ \E p \in LiveTasks : BeginLocking(p)
    \/ \E p \in LiveTasks : ProcStep(p)
    \/ \E p \in LiveTasks : ProcLock(p)
    \/ OtherInstanceLock
    \/ OtherInstanceUnlock

FairSpecProc ==
    /\ InitProcOnly
    /\ [][NextLive]_vars
    /\ WF_vars(\E p \in LiveTasks : ProcStep(p))
    /\ SF_vars(\E p \in LiveTasks : ProcLock(p))
    /\ WF_vars(OtherInstanceUnlock)

TypeOKProc ==
    /\ pc \in [Tasks -> {"idle", "lo_enter", "lo_lock", "lo_port", "rw_start",
                         "rw_wait", "lo_ret", "pn_start", "pn_wait",
                         "lc_probe", "lc_wait", "lc_nil", "done"}]
    /\ op \in [Tasks -> ProcOps \cup {"none"}]
    /\ lofficeMu \in {0} \cup Tasks
    /\ portHeld \in {0, OtherInstance} \cup Tasks
    /\ concHeld \subseteq Tasks
    /\ running \subseteq Tasks

\* the child processes of the kinds the rate limiter is to bound: all but
\* LoadConfig's "-h" probes of the poppler tools
LimitedChildren == {p \in running : op[p] # "LoadConfig"}

\* the office renderer children started by lofficeConvert
LofficeChildren == {p \in running : op[p] = "lofficeConvert"}

(***************************************************************************)
(* C1: with concurrency limit N, never more than N external child          *)
(* processes (renderer, wkhtmltopdf, page-count probe, pdfseparate, ...)   *)
(* run at the same time.  Stated as the claim states it; pdfPageNum's      *)
(* probe runs outside the limiter, so the code violates it.                *)
(***************************************************************************)
C1_AtMostNChildren == Cardinality(LimitedChildren) <= Concurrency

C3_OneRenderer == Cardinality(LofficeChildren) <= 1

\* a renderer runs after LoadConfig has set the port lock to nil, while
\* another conversion waits for the mutex
C3_Witness ==
    \E p, q \in Tasks :
        /\ p # q
        /\ p \in LofficeChildren
        /\ ~lofficePortLock
        /\ op[q] = "lofficeConvert" /\ pc[q] = "lo_lock"

=============================================================================
